---------------------------- MODULE Spec2Model ----------------------------
(***************************************************************************)
(* Fisheye stereo voxel reconstruction: the triangulation engine           *)
(* (closest_point_between_rays, triangulate_pixel_pair, world_to_voxel,    *)
(* accumulate_voxel), the ray-cast frame cycle of                          *)
(* configurable_reconstruction.main (traverse_ray_3d, accumulation,        *)
(* multi-camera boost, temporal decay) and the frame loop of               *)
(* MotionDetection3D.run_motion_detection.                                 *)
(*                                                                         *)
(* Numbers.  Python floats are modelled as exact rationals <<n, d>> in     *)
(* lowest terms with d > 0 (real-number semantics: rounding error is not   *)
(* modelled).  Lengths are in metres.  A ray direction is carried as an    *)
(* integer vector D standing for the unit vector D / |D| the code works    *)
(* with after its normalisation; every quantity the code derives from the  *)
(* unit vectors is computed exactly from D (see closest_point_between_rays)*)
(***************************************************************************)
EXTENDS Integers, Sequences, FiniteSets, TLC

-----------------------------------------------------------------------------
(* Exact rational arithmetic                                               *)

RECURSIVE GCD(_, _)
GCD(a, b) == IF b = 0 THEN a ELSE GCD(b, a % b)

Abs(n) == IF n < 0 THEN -n ELSE n

\* n/d in lowest terms, d > 0.
Rat(n, d) ==
    LET s == IF d < 0 THEN -1 ELSE 1
        g == GCD(Abs(n), Abs(d))
    IN  <<(s * n) \div g, (s * d) \div g>>

R(n) == <<n, 1>>
Zero == <<0, 1>>

RAdd(p, q) ==
    LET g == GCD(p[2], q[2])
    IN  Rat(p[1] * (q[2] \div g) + q[1] * (p[2] \div g), (p[2] \div g) * q[2])

RNeg(p) == <<-p[1], p[2]>>
RSub(p, q) == RAdd(p, RNeg(q))

RMul(p, q) ==
    LET g1 == GCD(Abs(p[1]), q[2])
        g2 == GCD(Abs(q[1]), p[2])
    IN  Rat((p[1] \div g1) * (q[1] \div g2), (p[2] \div g2) * (q[2] \div g1))

RDiv(p, q) == RMul(p, IF q[1] < 0 THEN <<-q[2], -q[1]>> ELSE <<q[2], q[1]>>)

\* a/b < c/d for b, d > 0, by comparing continued fractions (no products).
RECURSIVE FracLt(_, _, _, _)
FracLt(a, b, c, d) ==
    LET qa == a \div b
        qc == c \div d
        ra == a % b
        rc == c % d
    IN  IF qa # qc THEN qa < qc
        ELSE IF rc = 0 THEN FALSE
        ELSE IF ra = 0 THEN TRUE
        ELSE FracLt(d, rc, b, ra)

RLt(p, q) == FracLt(p[1], p[2], q[1], q[2])
RLe(p, q) == ~RLt(q, p)
RAbs(p) == <<Abs(p[1]), p[2]>>

\* Python int(x): truncation toward zero.
RTrunc(p) == IF p[1] >= 0 THEN p[1] \div p[2] ELSE -((-p[1]) \div p[2])

\* Python max / min on numbers.
Max(a, b) == IF a < b THEN b ELSE a
Min(a, b) == IF a < b THEN a ELSE b
RMax(p, q) == IF RLt(p, q) THEN q ELSE p
RMin(p, q) == IF RLt(p, q) THEN p ELSE q

-----------------------------------------------------------------------------
(* Vectors: 3-tuples of rationals (points) or of integers (directions)     *)

VAdd(u, v) == <<RAdd(u[1], v[1]), RAdd(u[2], v[2]), RAdd(u[3], v[3])>>
VSub(u, v) == <<RSub(u[1], v[1]), RSub(u[2], v[2]), RSub(u[3], v[3])>>
VScale(k, u) == <<RMul(k, u[1]), RMul(k, u[2]), RMul(k, u[3])>>
VDot(u, v) == RAdd(RAdd(RMul(u[1], v[1]), RMul(u[2], v[2])), RMul(u[3], v[3]))
\* An integer vector as a vector of rationals.
VRat(D) == <<R(D[1]), R(D[2]), R(D[3])>>
IDot(D, E) == D[1] * E[1] + D[2] * E[2] + D[3] * E[3]

\* Python None and float('inf'), as values comparable with tuples
None == <<>>
Inf == <<1, 0>>


-----------------------------------------------------------------------------
(* Ray Triangulator                                                        *)

\* The quantities both closest_point_between_rays variants compute from the
\* normalised directions d1 = D1/|D1|, d2 = D2/|D2| and w = p1 - p2:
\*   a = d1.d1 = 1, c = d2.d2 = 1, b = d1.d2 (carried as its sign and b*b),
\*   denom = a*c - b*b, and the two solutions of the 2x2 system,
\*   x1 = (b*e - c*d)/denom and x2 = (a*e - b*d)/denom with d = d1.w,
\*   e = d2.w.  x1 and x2 are carried divided by |D1| and |D2| (x1n, x2n), so
\*   that p1 + x1*d1 = p1 + x1n*D1; the signs of x1, x2 are those of x1n, x2n.
RaySystem(p1, D1, p2, D2) ==
    LET w  == VSub(p1, p2)
        A  == IDot(D1, D1)
        B  == IDot(D1, D2)
        C  == IDot(D2, D2)
        dw == VDot(VRat(D1), w)
        ew == VDot(VRat(D2), w)
        b2 == Rat(B * B, A * C)
        denom == RSub(R(1), b2)
    IN  [ A |-> A, B |-> B, C |-> C, dw |-> dw, ew |-> ew,
          b2 |-> b2, denom |-> denom ]

\* (b*e - c*d) / denom, divided by |D1|  (defined when denom # 0)
X1n(q) == RDiv(RSub(RDiv(RMul(R(q.B), q.ew), R(q.C)), q.dw), RMul(R(q.A), q.denom))
\* (a*e - b*d) / denom, divided by |D2|
X2n(q) == RDiv(RSub(q.ew, RDiv(RMul(R(q.B), q.dw), R(q.A))), RMul(R(q.C), q.denom))

\* The parallel test with the threshold taken as 0.9996
TooParallelLoose(b2) == RLt(Rat(2499 * 2499, 2500 * 2500), b2)

\* abs(b) > 0.996, as b*b > 0.996^2 = (249/250)^2.
TooParallel(b2) == RLt(Rat(249 * 249, 250 * 250), b2)
\* abs(denom) < 1e-6
Singular(denom) == RLt(RAbs(denom), Rat(1, 1000000))

\* The squared length of a rational vector (np.linalg.norm, squared).
Norm2(u) == VDot(u, u)

\* The sum of the two closest points taken for their midpoint
SumAndDistance(point1, point2) ==
    [ point     |-> VAdd(point1, point2),
      distance2 |-> Norm2(VSub(point1, point2)) ]

\* The closest points on the two rays, their midpoint and the square of
\* their distance (the code returns the distance itself).
MidpointAndDistance(point1, point2) ==
    [ point     |-> VScale(Rat(1, 2), VAdd(point1, point2)),
      distance2 |-> Norm2(VSub(point1, point2)) ]

\* The function with the sign test on the first ray only
ClosestPointFirstRayOnly(q, p1, D1, p2, D2) ==
    IF Singular(q.denom) \/ TooParallel(q.b2)
    THEN [point |-> None, distance2 |-> Inf]
    ELSE IF RLt(X1n(q), Zero)
    THEN [point |-> None, distance2 |-> Inf]
    ELSE MidpointAndDistance(VAdd(p1, VScale(X1n(q), VRat(D1))),
                             VAdd(p2, VScale(X2n(q), VRat(D2))))

\* The module-level closest_point_between_rays of
\* stereo_triangulation_calibration.py, from the system q of the two rays:
\* t is the parameter on ray 1, s on ray 2; (None, inf) for parallel rays and
\* for t < 0 or s < 0.
ClosestPointOfSystem(q, p1, D1, p2, D2) ==
    IF Singular(q.denom) \/ TooParallel(q.b2)
    THEN [point |-> None, distance2 |-> Inf]
    ELSE IF RLt(X1n(q), Zero) \/ RLt(X2n(q), Zero)
    THEN [point |-> None, distance2 |-> Inf]
    ELSE MidpointAndDistance(VAdd(p1, VScale(X1n(q), VRat(D1))),
                             VAdd(p2, VScale(X2n(q), VRat(D2))))

closest_point_between_rays(p1, D1, p2, D2) ==
    ClosestPointOfSystem(RaySystem(p1, D1, p2, D2), p1, D1, p2, D2)

\* CalibratedStereoReconstructor.closest_point_between_rays (the method of
\* StereoVoxelReconstructor is the same text): the parallel test comes first,
\* there is no test of the signs of s and t, and the failure value is
\* (None, None).
ReconstructorClosestPointOfSystem(q, origin1, dir1, origin2, dir2) ==
    IF TooParallel(q.b2)
    THEN [point |-> None, distance2 |-> None]
    ELSE IF Singular(q.denom)
    THEN [point |-> None, distance2 |-> None]
    ELSE MidpointAndDistance(VAdd(origin1, VScale(X1n(q), VRat(dir1))),
                             VAdd(origin2, VScale(X2n(q), VRat(dir2))))

Reconstructor_closest_point_between_rays(origin1, dir1, origin2, dir2) ==
    ReconstructorClosestPointOfSystem(
        RaySystem(origin1, dir1, origin2, dir2), origin1, dir1, origin2, dir2)

-----------------------------------------------------------------------------
(* CalibratedStereoReconstructor: gates, world -> voxel mapping, grid      *)

cam_left_pos  == <<Zero, Zero, Zero>>
cam_right_pos == <<Rat(1, 2), Zero, Zero>>

voxel_size == Rat(1, 100)
voxel_grid_size == <<150, 150, 100>>
\* voxel_bounds['x'], ['y'], ['z'] as <<min, max>>
voxel_bounds == << <<Rat(-1, 2), R(1)>>, <<Rat(-3, 4), Rat(3, 4)>>, <<Zero, R(1)>> >>

\* error > max_triangulation_error, on the squares (both sides are >= 0)
ErrorExceeds(distance2, max_error) == RLt(RMul(max_error, max_error), distance2)

\* The validation without the separation gate
ValidatePixelPairUngated(r, max_error) ==
    IF r.point = None THEN [point |-> None, distance2 |-> None]
    ELSE IF RLt(r.point[3], Zero) THEN [point |-> None, distance2 |-> None]
    ELSE IF RLt(R(2), r.point[3]) THEN [point |-> None, distance2 |-> None]
    ELSE r

\* The validation of triangulate_pixel_pair, given what the closest-point
\* method returned: no point, the separation gate, the height gates (z < 0,
\* z > 2.0).
ValidatePixelPair(r, max_error) ==
    IF r.point = None THEN [point |-> None, distance2 |-> None]
    ELSE IF ErrorExceeds(r.distance2, max_error) THEN [point |-> None, distance2 |-> None]
    ELSE IF RLt(r.point[3], Zero) THEN [point |-> None, distance2 |-> None]
    ELSE IF RLt(R(2), r.point[3]) THEN [point |-> None, distance2 |-> None]
    ELSE r

\* triangulate_pixel_pair, given the two rays of the pixel pair
triangulate_pixel_pair(ray_left, ray_right, max_error) ==
    ValidatePixelPair(
        Reconstructor_closest_point_between_rays(
            cam_left_pos, ray_left, cam_right_pos, ray_right),
        max_error)

\* The per-pair filter of StereoTriangulationCalibration.triangulate_stereo,
\* given what closest_point_between_rays returned: no point, error above the
\* maximum, z < 0.05, y < 0.
FilterDetection(r, max_error) ==
    IF r.point = None THEN [point |-> None, distance2 |-> Inf]
    ELSE IF ErrorExceeds(r.distance2, max_error) THEN [point |-> None, distance2 |-> Inf]
    ELSE IF RLt(r.point[3], Rat(5, 100)) THEN [point |-> None, distance2 |-> Inf]
    ELSE IF RLt(r.point[2], Zero) THEN [point |-> None, distance2 |-> Inf]
    ELSE r

StereoDetection(ray_left, ray_right, max_error) ==
    FilterDetection(
        closest_point_between_rays(cam_left_pos, ray_left, cam_right_pos, ray_right),
        max_error)

\* lo <= x < hi
InHalfOpen(x, lo, hi) == RLe(lo, x) /\ RLt(x, hi)

\* int((x - min) / voxel_size), clamped to 0 .. size - 1
ClampedIndex(x, lo, size) ==
    Max(0, Min(RTrunc(RDiv(RSub(x, lo), voxel_size)), size - 1))

\* world_to_voxel: None outside the bounds, else the truncated and clamped
\* index on each axis.
world_to_voxel(world_pos) ==
    IF \E k \in 1..3 :
          ~InHalfOpen(world_pos[k], voxel_bounds[k][1], voxel_bounds[k][2])
    THEN None
    ELSE [k \in 1..3 |->
            ClampedIndex(world_pos[k], voxel_bounds[k][1], voxel_grid_size[k])]

\* The grid is kept sparse: a function from the cells holding a non-zero
\* value to that value; every other cell holds 0.
GridGet(g, cell) == IF cell \in DOMAIN g THEN g[cell] ELSE Zero
GridSet(g, cell, v) ==
    IF v = Zero THEN [c \in DOMAIN g \ {cell} |-> g[c]] ELSE (cell :> v) @@ g
EmptyGrid == [c \in {} |-> Zero]

\* numpy uint8 scalar arithmetic (the intensities come from a uint8 image)
U8(n) == n % 256

-----------------------------------------------------------------------------
(* State                                                                   *)

VARIABLES
    prog,         \* the script that runs: "rec" calibrated_stereo_reconstruction,
                  \* "cal" stereo_triangulation_calibration,
                  \* "cfg" configurable_reconstruction, "md" motion_detection_3d
    pc,           \* the position of the script's main loop, or of the call ("cap")
    voxel_grid,   \* the voxel grid (self.voxels / voxel_grid / self.voxel_grid)
    camera_hits,  \* cfg: the per-camera seen tensor, as the set of <<cell, camera>> set True
    frame_count,  \* frames processed
    img,          \* the frame pair captured in this cycle, or None
    prev,         \* the stored previous frame pair, or None
    max_triangulation_error,
    voxel_count, triangulation_count, triangulation_attempts,
    pair,         \* rec, cal: the candidate pair of the last loop iteration
    result,       \* rec, cal: what closest_point_between_rays returned for it
    out,          \* rec: what triangulate_pixel_pair returned; cal: the detection
    writes,       \* the grid writes of the last step: records [cell, point]
    cycle,        \* history of the running frame cycle (not program state)
    steps,        \* loop iterations / capture attempts / key presses so far
    calibrations, \* cfg: per camera, whether its calibration loaded (is not None)
    saved,        \* the grid a save wrote (what a reader of the grid saw), or None
    retry,        \* capture_frame_pair: its retry argument
    attempt,      \* capture_frame_pair: capture attempts made in the running call
    outcomes,     \* capture_frame_pair: what the cameras did on each attempt (history)
    candidates,   \* the candidate lists of the processed frame, <<left, right>>
    attempted,    \* the candidate pairs of the processed frame that were triangulated
    raw,          \* the candidate lists before the sampling cap (history)
    loop,         \* triangulate_stereo: the position of its two nested loops
    before,       \* sv: the previous frames and the grid as the last call found them (history)
    returned,     \* what the last process_frame_pair call returned, or None
    call,         \* the last function or method applied on its own, with its arguments
    world_coords, \* save_voxels: the records of the last snapshot, or None
    ray_voxels,   \* cfg: what traverse_ray_3d returned for each pixel of the last camera
    is_capturing, \* DualASICameraSystem.is_capturing
    video,        \* per camera, whether its video capture runs (the hardware state)
    commands,     \* the camera commands issued so far (history)
    settings      \* the detection thresholds an interactive loop adjusts, or None

vars == <<prog, pc, voxel_grid, camera_hits, frame_count, img, prev,
          max_triangulation_error, voxel_count, triangulation_count,
          triangulation_attempts, pair, result, out, writes, cycle, steps,
          calibrations, saved, retry, attempt, outcomes, candidates,
          attempted, raw, loop, before, returned, call, world_coords,
          ray_voxels, is_capturing, video, commands, settings>>

triVars == <<max_triangulation_error, voxel_count, triangulation_count,
             triangulation_attempts, pair, result, out>>
cycVars == <<camera_hits, frame_count, img, prev, cycle>>
capVars == <<retry, attempt, outcomes>>
frameVars == <<candidates, attempted, raw, loop, before, returned>>
runVars == <<calibrations, saved>>
fnVars == <<call, world_coords>>
camVars == <<is_capturing, video, commands>>
restVars == <<fnVars, camVars, settings, ray_voxels>>

\* Bounds of the exploration
MaxPairs == 2
MaxKeys == 1
MaxFrames == 3
MaxMotionFrames == 2
MaxRetry == 3
MaxCalls == 2
MaxSvCalls == 4
MaxCamCalls == 4
MaxKeyPresses == 10
MaxFramePixels == 260

\* Candidate pixels, each given by the ray its camera model yields (an integer
\* vector D standing for the unit ray D/|D|) and its uint8 intensity.  The
\* left rays are (nx, ny, 1) rays; the right rays are rotated by R_right of
\* the calibration, which covers down-pointing rays.
LeftCandidates ==
    { [ray |-> <<0, 0, 1>>,  intensity |-> 150],
      [ray |-> <<1, 0, 2>>,  intensity |-> 120],
      [ray |-> <<-1, 0, 2>>, intensity |-> 200],
      [ray |-> <<0, 1, 1>>,  intensity |-> 150] }
RightCandidates ==
    { [ray |-> <<0, 0, 1>>,    intensity |-> 150],
      [ray |-> <<-1, 0, 2>>,   intensity |-> 140],
      [ray |-> <<-1, 0, 1>>,   intensity |-> 120],
      [ray |-> <<1, 0, 2>>,    intensity |-> 200],
      [ray |-> <<1, 0, 12>>,   intensity |-> 150],
      [ray |-> <<-1, 0, 3>>,   intensity |-> 130],
      [ray |-> <<-1, 0, 5>>,   intensity |-> 130],
      [ray |-> <<-25, 1, 25>>, intensity |-> 140],
      [ray |-> <<-5, 1, 5>>,   intensity |-> 170],
      [ray |-> <<1, 0, -1>>,   intensity |-> 110] }

NoResult == [point |-> None, distance2 |-> None]
NoOut == [point |-> None, distance2 |-> None, gate |-> None]
NoPair == [left |-> None, right |-> None, tried |-> FALSE]
\* The history of a frame cycle: the grid at its start, the sum each cell
\* received, the <<cell, camera>> marks made, the grid-wide operations applied.
NoCycle == [base |-> EmptyGrid, contrib |-> EmptyGrid, seen |-> {}, ops |-> <<>>]

InitTri ==
    /\ voxel_count = 0
    /\ triangulation_count = 0
    /\ triangulation_attempts = 0
    /\ pair = NoPair
    /\ result = NoResult
    /\ out = NoOut
NoLoop == [left |-> 0, right |-> 0, combinations_tried |-> 0]
InitCap ==
    /\ retry = 0
    /\ attempt = 0
    /\ outcomes = <<>>
InitFrame ==
    /\ candidates = <<<<>>, <<>>>>
    /\ attempted = {}
    /\ raw = <<<<>>, <<>>>>
    /\ loop = NoLoop
    /\ before = [prev |-> None, grid |-> EmptyGrid]
    /\ returned = None
InitCyc ==
    /\ camera_hits = {}
    /\ frame_count = 0
    /\ img = None
    /\ prev = None
    /\ cycle = NoCycle

\* CalibratedStereoReconstructor.__init__
InitRec ==
    /\ prog = "rec"
    /\ pc = "pairs"
    /\ max_triangulation_error = Rat(2, 100)
\* StereoTriangulationCalibration.__init__
InitCal ==
    /\ prog = "cal"
    /\ pc = "pairs"
    /\ max_triangulation_error = Rat(10, 100)

-----------------------------------------------------------------------------
(* rec: one iteration of the pair loop of process_frame_pair               *)

\* accumulate_voxel writing a point outside the bounds to the nearest cell
AccumulateAtClamped(g, voxel_idx, world_pos, confidence) ==
    [ok |-> TRUE,
     grid |-> GridSet(g, [k \in 1..3 |-> ClampedIndex(world_pos[k], voxel_bounds[k][1],
                                                     voxel_grid_size[k])],
                 RAdd(GridGet(g, [k \in 1..3 |-> ClampedIndex(world_pos[k], voxel_bounds[k][1],
                                                              voxel_grid_size[k])]),
                      confidence)),
     writes |-> {[cell |-> [k \in 1..3 |-> ClampedIndex(world_pos[k], voxel_bounds[k][1],
                                                        voxel_grid_size[k])],
                  point |-> world_pos]}]

\* accumulate_voxel(world_pos, confidence), given the index world_to_voxel
\* returned: the new grid and the write made
AccumulateAt(g, voxel_idx, world_pos, confidence) ==
    IF voxel_idx = None
    THEN [ok |-> FALSE, grid |-> g, writes |-> {}]
    ELSE [ok |-> TRUE,
          grid |-> GridSet(g, voxel_idx, RAdd(GridGet(g, voxel_idx), confidence)),
          writes |-> {[cell |-> voxel_idx, point |-> world_pos]}]

accumulate_voxel(g, world_pos, confidence) ==
    AccumulateAt(g, world_to_voxel(world_pos), world_pos, confidence)

\* The body of the pair loop once the pre-filter has passed: o is what
\* triangulate_pixel_pair returned.
RecAccumulate(o, confidence) ==
    /\ out' = [point |-> o.point, distance2 |-> o.distance2,
               gate |-> max_triangulation_error]
    /\ IF o.point = None
       THEN /\ writes' = {}
            /\ UNCHANGED <<voxel_grid, voxel_count, triangulation_count>>
       ELSE \E acc \in {accumulate_voxel(voxel_grid, o.point, confidence)} :
              IF acc.ok
              THEN /\ voxel_grid' = acc.grid
                   /\ writes' = acc.writes
                   /\ voxel_count' = voxel_count + 1
                   /\ triangulation_count' = triangulation_count + 1
              ELSE /\ writes' = {}
                   /\ UNCHANGED <<voxel_grid, voxel_count, triangulation_count>>

\* intensity_diff = abs(int_l - int_r); if intensity_diff > 50: continue.
\* int_l and int_r are numpy uint8 scalars: their difference wraps modulo 256
\* and abs() of the unsigned result changes nothing.
IntensityPreFilterDiscards(int_l, int_r) == U8(int_l - int_r) > 50

RecPair(l, r) ==
    /\ prog = "rec" /\ pc = "pairs"
    /\ steps < MaxPairs
    /\ steps' = steps + 1
    /\ IF IntensityPreFilterDiscards(l.intensity, r.intensity)
       THEN /\ pair' = [left |-> l, right |-> r, tried |-> FALSE]
            /\ result' = NoResult
            /\ out' = NoOut
            /\ writes' = {}
            /\ UNCHANGED <<voxel_grid, voxel_count, triangulation_count,
                           triangulation_attempts>>
       ELSE /\ pair' = [left |-> l, right |-> r, tried |-> TRUE]
            /\ triangulation_attempts' = triangulation_attempts + 1
            /\ result' = Reconstructor_closest_point_between_rays(
                             cam_left_pos, l.ray, cam_right_pos, r.ray)
            /\ \E o \in {triangulate_pixel_pair(l.ray, r.ray, max_triangulation_error)} :
                 RecAccumulate(o, Rat(U8(l.intensity + r.intensity), 2 * 255))
    /\ UNCHANGED <<prog, pc, max_triangulation_error, cycVars, capVars, frameVars, runVars, restVars>>

\* The 'e' / 'E' keys of calibrated_stereo_reconstruction.main
RecKey(key) ==
    /\ prog = "rec" /\ pc = "pairs"
    /\ steps < MaxPairs + MaxKeys
    /\ steps' = steps + 1
    /\ max_triangulation_error' =
         IF key = "e"
         THEN RMax(Rat(1, 100), RSub(max_triangulation_error, Rat(1, 100)))
         ELSE RMin(Rat(50, 100), RAdd(max_triangulation_error, Rat(1, 100)))
    /\ writes' = {}
    /\ UNCHANGED <<prog, pc, voxel_grid, voxel_count, triangulation_count,
                   triangulation_attempts, pair, result, out, cycVars, capVars, frameVars, runVars, restVars>>

-----------------------------------------------------------------------------
(* cal: one iteration of the pair loop of triangulate_stereo               *)

CalPair(l, r) ==
    /\ prog = "cal"
    /\ steps < MaxPairs
    /\ steps' = steps + 1
    /\ pair' = [left |-> l, right |-> r, tried |-> TRUE]
    /\ result' = closest_point_between_rays(cam_left_pos, l.ray, cam_right_pos, r.ray)
    /\ \E o \in {StereoDetection(l.ray, r.ray, max_triangulation_error)} :
         out' = [point |-> o.point, distance2 |-> o.distance2,
                 gate |-> max_triangulation_error]
    /\ writes' = {}
    /\ UNCHANGED <<prog, pc, voxel_grid, max_triangulation_error, voxel_count,
                   triangulation_count, triangulation_attempts, cycVars, capVars, frameVars, runVars, restVars>>

\* The 'e' / 'E' keys of StereoTriangulationCalibration.run
CalKey(key) ==
    /\ prog = "cal"
    /\ steps < MaxPairs + MaxKeys
    /\ steps' = steps + 1
    /\ max_triangulation_error' =
         IF key = "e"
         THEN RMax(RSub(max_triangulation_error, Rat(2, 100)), Rat(1, 100))
         ELSE RMin(RAdd(max_triangulation_error, Rat(2, 100)), Rat(50, 100))
    /\ writes' = {}
    /\ UNCHANGED <<prog, pc, voxel_grid, voxel_count, triangulation_count,
                   triangulation_attempts, pair, result, out, cycVars, capVars, frameVars, runVars, restVars>>

-----------------------------------------------------------------------------
(* cfg: configurable_reconstruction.py                                     *)

\* The configuration file the run loads.  ray_step_size_ratio,
\* multi_camera_boost, distance_falloff_factor and motion_threshold have the
\* defaults of ReconstructionConfig; the grid is a 6^3 grid of 10 cm voxels
\* laid out like the 64^3 grid of improved_ray_traversal.py (x_min = -0.25,
\* y_min = z_min = 0, the cameras at the origin and at x = 0.5 on the ground
\* plane); temporal_decay is 0.75.
config ==
    [ size |-> 6,
      voxel_size_meters |-> Rat(1, 10),
      x_min |-> Rat(-1, 4), x_max |-> Rat(7, 20),
      y_min |-> Zero,       y_max |-> Rat(6, 10),
      z_min |-> Zero,       z_max |-> Rat(6, 10),
      motion_threshold |-> 25,
      max_ray_distance_meters |-> Rat(1, 2),
      ray_step_size_ratio |-> Rat(1, 2),
      temporal_decay |-> Rat(3, 4),
      multi_camera_boost |-> Rat(3, 2),
      distance_falloff_factor |-> Rat(1, 5),
      position |-> << <<Zero, Zero, Zero>>, <<Rat(1, 2), Zero, Zero>> >> ]

\* The pixels of each camera that the frames of the model vary, as <<px, py>>
\* in the 1920 x 1080 image.
LeftPixels  == << <<1715, 916>>, <<1715, 164>> >>
RightPixels == << <<205, 916>> >>
CameraPixels == <<LeftPixels, RightPixels>>

\* A unit ray is carried as [D, n] with the unit vector D/n (n*n = D.D).
\* The rays a loaded calibration yields for these pixels, by
\* CameraCalibration.get_ray_direction: (norm_x, norm_y, 1) normalised, for
\* the normalised coordinates (1, 1/2), (1, -1/2) and (-1, 1/2).
LeftRays  == << [D |-> <<2, 1, 2>>, n |-> 3], [D |-> <<2, -1, 2>>, n |-> 3] >>
RightRays == << [D |-> <<-2, 1, 2>>, n |-> 3] >>
CameraRays == <<LeftRays, RightRays>>

\* The substitute ray of a camera without calibration:
\* ((px - 960) / 755, 1, (py - 540) / 752) normalised.  The direction is
\* scaled to the integer vector D; n is its integer norm, which exists for
\* the pixels above.
FallbackDirection(px, py) == <<752 * (px - 960), 755 * 752, 755 * (py - 540)>>
ReducedRay(D, g) ==
    [D |-> <<D[1] \div g, D[2] \div g, D[3] \div g>>,
     n |-> CHOOSE n \in 1..2000 :
              n * n = IDot(<<D[1] \div g, D[2] \div g, D[3] \div g>>,
                           <<D[1] \div g, D[2] \div g, D[3] \div g>>)]
FallbackRay(px, py) ==
    ReducedRay(FallbackDirection(px, py),
               GCD(GCD(Abs(FallbackDirection(px, py)[1]), FallbackDirection(px, py)[2]),
                   Abs(FallbackDirection(px, py)[3])))

\* The ray of pixel p of camera cam: left_calib.get_ray_direction(px, py) if
\* the calibration loaded, else the substitute
PixelRay(cam, p, calibrated) ==
    IF calibrated THEN CameraRays[cam][p]
    ELSE FallbackRay(CameraPixels[cam][p][1], CameraPixels[cam][p][2])

\* The uint8 intensities a pixel takes: 51 (0.2, below the 0.3 cut) and 255.
Intensities == {51, 255}
\* A grayscale frame: the intensity of each pixel.
LeftFrames  == [1..Len(LeftRays) -> Intensities]
RightFrames == [1..Len(RightRays) -> Intensities]

step_size == RMul(config.voxel_size_meters, config.ray_step_size_ratio)
num_steps == RTrunc(RDiv(config.max_ray_distance_meters, step_size))

UnitRay(ray) == <<Rat(ray.D[1], ray.n), Rat(ray.D[2], ray.n), Rat(ray.D[3], ray.n)>>

\* point_3d = camera_pos + ray_dir * t with t = i * step_size
SamplePoint(camera_pos, ray, i) ==
    VAdd(camera_pos, VScale(RMul(R(i), step_size), UnitRay(ray)))

\* int((coordinate - min) / voxel_size)
VoxelIndex(x, lo) == RTrunc(RDiv(RSub(x, lo), config.voxel_size_meters))

\* The index check with the upper bound only
IndexInGridUpperOnly(v) == v < config.size

\* The index check of traverse_ray_3d
IndexInGrid(v) == 0 <= v /\ v < config.size

\* falloff = 1 / (1 + distance * falloff_factor); the distance of the sample
\* from the camera is t = i * step_size, the ray being a unit vector.
Falloff(i) ==
    RDiv(R(1), RAdd(R(1), RMul(RMul(R(i), step_size), config.distance_falloff_factor)))

\* The sample loop without the visited set
TraverseSampleRevisiting(i, point, vox, visited, voxel_list, intensity) ==
    IF RLt(point[2], Zero)
    THEN [visited |-> visited, list |-> voxel_list]
    ELSE IF ~(IndexInGrid(vox[1]) /\ IndexInGrid(vox[2]) /\ IndexInGrid(vox[3]))
    THEN [visited |-> visited, list |-> voxel_list]
    ELSE [visited |-> visited \cup {<<vox[3], vox[2], vox[1]>>},
          list |-> Append(voxel_list,
                     [cell |-> <<vox[3], vox[2], vox[1]>>,
                      weighted_intensity |-> RMul(intensity, Falloff(i)),
                      point |-> point])]

\* One sample of the loop of traverse_ray_3d, given its point and its voxel
\* (vox_x, vox_y, vox_z): the visited set and the list after it.
TraverseSample(i, point, vox, visited, voxel_list, intensity) ==
    IF RLt(point[2], Zero)
    THEN [visited |-> visited, list |-> voxel_list]
    ELSE IF ~(IndexInGrid(vox[1]) /\ IndexInGrid(vox[2]) /\ IndexInGrid(vox[3]))
    THEN [visited |-> visited, list |-> voxel_list]
    ELSE IF <<vox[3], vox[2], vox[1]>> \in visited
    THEN [visited |-> visited, list |-> voxel_list]
    ELSE [visited |-> visited \cup {<<vox[3], vox[2], vox[1]>>},
          list |-> Append(voxel_list,
                     [cell |-> <<vox[3], vox[2], vox[1]>>,
                      weighted_intensity |-> RMul(intensity, Falloff(i)),
                      point |-> point])]

VoxelOfPoint(point) ==
    <<VoxelIndex(point[1], config.x_min),
      VoxelIndex(point[2], config.y_min),
      VoxelIndex(point[3], config.z_min)>>

TraverseAt(i, point, st, intensity) ==
    TraverseSample(i, point, VoxelOfPoint(point), st.visited, st.list, intensity)

RECURSIVE TraverseFrom(_, _, _, _, _)
TraverseFrom(i, st, camera_pos, ray, intensity) ==
    IF i >= num_steps THEN st.list
    ELSE TraverseFrom(i + 1,
                      TraverseAt(i, SamplePoint(camera_pos, ray, i), st, intensity),
                      camera_pos, ray, intensity)

\* traverse_ray_3d(camera_pos, ray_dir, config, intensity): the list of
\* (vox_z, vox_y, vox_x, weighted_intensity), each with the sample point that
\* produced it.
traverse_ray_3d(camera_pos, ray, intensity) ==
    TraverseFrom(0, [visited |-> {}, list |-> <<>>], camera_pos, ray, intensity)

\* motion_coords: the pixels whose difference to the previous frame exceeds
\* the threshold, in np.argwhere order
IsMotion(cur, prv, p) == Abs(cur[p] - prv[p]) > config.motion_threshold

\* The accumulation loop over the voxels one ray returned
AccumulateVoxel(st, v, cam) ==
    [grid |-> GridSet(st.grid, v.cell,
                 RAdd(GridGet(st.grid, v.cell), RMul(v.weighted_intensity, Rat(1, 10)))),
     hits |-> st.hits \cup {<<v.cell, cam>>},
     writes |-> st.writes \cup {[cell |-> v.cell, point |-> v.point]},
     contrib |-> GridSet(st.contrib, v.cell,
                 RAdd(GridGet(st.contrib, v.cell), RMul(v.weighted_intensity, Rat(1, 10))))]

RECURSIVE AccumulateVoxels(_, _, _, _)
AccumulateVoxels(st, voxels, k, cam) ==
    IF k > Len(voxels) THEN st
    ELSE \* the state after voxel k is a value before the loop moves on
         CHOOSE r \in {AccumulateVoxels(s, voxels, k + 1, cam) :
                        s \in {AccumulateVoxel(st, voxels[k], cam)}} : TRUE

\* The body of a camera's pixel loop: the intensity cut, the ray, the
\* traversal, the accumulation
\* voxels_on_ray[p] is the traversal of the ray of pixel p (VoxelsOnRays).
ProcessPixel(st, p, cam, cur, voxels_on_ray) ==
    IF RLt(Rat(cur[p], 255), Rat(3, 10)) THEN st
    ELSE AccumulateVoxels(st, voxels_on_ray[p], 1, cam)

RECURSIVE ProcessCamera(_, _, _, _, _, _)
ProcessCamera(st, p, cam, cur, prv, voxels_on_ray) ==
    IF p > Len(cur) THEN st
    ELSE ProcessCamera(IF IsMotion(cur, prv, p)
                       THEN ProcessPixel(st, p, cam, cur, voxels_on_ray) ELSE st,
                       p + 1, cam, cur, prv, voxels_on_ray)

\* voxels_on_ray = traverse_ray_3d(position, ray_dir, config, pixel_intensity)
\* for each pixel of a camera, its ray taken from the camera's ray model
VoxelsOnRays(cam, cur, calibrated) ==
    [p \in DOMAIN CameraPixels[cam] |->
        traverse_ray_3d(config.position[cam], PixelRay(cam, p, calibrated),
                        Rat(cur[p], 255))]

\* A boost applied once per camera that marked the cell
ApplyBoostPerCamera(g, hits) ==
    [c \in DOMAIN g |->
        RMul(RMul(g[c], IF <<c, 1>> \in hits THEN config.multi_camera_boost ELSE R(1)),
             IF <<c, 2>> \in hits THEN config.multi_camera_boost ELSE R(1))]

\* voxel_grid[both_cameras] *= multi_camera_boost
ApplyBoost(g, hits) ==
    [c \in DOMAIN g |->
        IF <<c, 1>> \in hits /\ <<c, 2>> \in hits
        THEN RMul(g[c], config.multi_camera_boost) ELSE g[c]]

\* A decay that subtracts (1 - temporal_decay) from every cell
ApplyDecaySubtract(g) ==
    [c \in DOMAIN g |-> RSub(g[c], RSub(R(1), config.temporal_decay))]

\* A cycle without decay, as in StereoVoxelReconstructor.process_frame_pair
ApplyDecayNone(g) == g

\* voxel_grid *= temporal_decay
ApplyDecay(g) == [c \in DOMAIN g |-> RMul(g[c], config.temporal_decay)]

\* The marks of the earlier cycles kept
ClearHitsKept(hits) == hits

\* camera_hits.fill(False)
ClearHits(hits) == {}

InitCfg ==
    /\ prog = "cfg"
    /\ pc = "baseline"
    /\ max_triangulation_error = None

\* prev_left, prev_right = cameras.capture_frame_pair(), before the loop
CfgBaseline(f) ==
    /\ prog = "cfg" /\ pc = "baseline"
    /\ prev' = f
    /\ pc' = "capture"
    /\ UNCHANGED <<prog, voxel_grid, camera_hits, frame_count, img, writes, cycle,
                   steps, triVars, capVars, frameVars, runVars, restVars>>

\* The head of the loop: capture (a failed capture skips the cycle), count
\* the frame, take the differences to the previous frame, clear camera_hits.
CfgCapture(f) ==
    /\ prog = "cfg" /\ pc = "capture"
    /\ steps < MaxFrames
    /\ steps' = steps + 1
    /\ img' = f
    /\ writes' = {}
    /\ IF f = None
       THEN UNCHANGED <<pc, frame_count, camera_hits, cycle, saved>>
       ELSE /\ frame_count' = frame_count + 1
            /\ IF prev = None
               THEN \* prev_left.astype on None raises AttributeError, which
                    \* the try does not catch: the finally block saves the
                    \* grid and the script ends with the exception
                    /\ pc' = "crashed"
                    /\ saved' = voxel_grid
                    /\ UNCHANGED <<camera_hits, cycle>>
               ELSE /\ pc' = "left"
                    /\ camera_hits' = ClearHits(camera_hits)
                    /\ cycle' = [base |-> voxel_grid, contrib |-> EmptyGrid,
                                 seen |-> {}, ops |-> <<>>]
                    /\ UNCHANGED saved
    /\ UNCHANGED <<prog, voxel_grid, prev, calibrations, triVars, capVars, frameVars, restVars>>

\* The lists traverse_ray_3d returned in the pixel loop of a camera: the list
\* of each pixel that moved and passed the intensity cut, <<>> for the others
TraversedRays(cur, prv, rays) ==
    [p \in DOMAIN rays |->
        IF IsMotion(cur, prv, p) /\ ~RLt(Rat(cur[p], 255), Rat(3, 10))
        THEN rays[p] ELSE <<>>]

\* The pixel loop of one camera (1 = left, 2 = right)
CfgCamera(cam, st) ==
    /\ voxel_grid' = st.grid
    /\ camera_hits' = st.hits
    /\ writes' = st.writes
    /\ cycle' = [cycle EXCEPT !.contrib = st.contrib,
                              !.seen = @ \cup {<<w.cell, cam>> : w \in st.writes}]

CfgLeft ==
    /\ prog = "cfg" /\ pc = "left"
    /\ \E rays \in {VoxelsOnRays(1, img[1], calibrations[1])} :
       \E st \in {ProcessCamera([grid |-> voxel_grid, hits |-> camera_hits,
                                  writes |-> {}, contrib |-> cycle.contrib],
                                 1, 1, img[1], prev[1], rays)} :
         /\ CfgCamera(1, st)
         /\ ray_voxels' = TraversedRays(img[1], prev[1], rays)
    /\ pc' = "right"
    /\ UNCHANGED <<prog, frame_count, img, prev, steps, triVars, capVars, frameVars, runVars,
                   fnVars, camVars, settings>>

CfgRight ==
    /\ prog = "cfg" /\ pc = "right"
    /\ \E rays \in {VoxelsOnRays(2, img[2], calibrations[2])} :
       \E st \in {ProcessCamera([grid |-> voxel_grid, hits |-> camera_hits,
                                  writes |-> {}, contrib |-> cycle.contrib],
                                 1, 2, img[2], prev[2], rays)} :
         /\ CfgCamera(2, st)
         /\ ray_voxels' = TraversedRays(img[2], prev[2], rays)
    /\ pc' = "boost"
    /\ UNCHANGED <<prog, frame_count, img, prev, steps, triVars, capVars, frameVars, runVars,
                   fnVars, camVars, settings>>

\* The multi-camera boost
CfgBoost ==
    /\ prog = "cfg" /\ pc = "boost"
    /\ voxel_grid' = ApplyBoost(voxel_grid, camera_hits)
    /\ cycle' = [cycle EXCEPT !.ops = Append(@, "boost")]
    /\ writes' = {}
    /\ pc' = "decay"
    /\ UNCHANGED <<prog, camera_hits, frame_count, img, prev, steps, triVars, capVars, frameVars, runVars, restVars>>

\* The temporal decay and the end of the cycle: the frame becomes the
\* previous frame
CfgDecay ==
    /\ prog = "cfg" /\ pc = "decay"
    /\ voxel_grid' = ApplyDecay(voxel_grid)
    /\ cycle' = [cycle EXCEPT !.ops = Append(@, "decay")]
    /\ prev' = img
    /\ writes' = {}
    /\ pc' = "capture"
    /\ UNCHANGED <<prog, camera_hits, frame_count, img, steps, triVars, capVars, frameVars, runVars, restVars>>

\* The recording time is over at the head of the loop: the finally block
\* saves the grid
CfgFinish ==
    /\ prog = "cfg" /\ pc = "capture"
    /\ pc' = "done"
    /\ saved' = voxel_grid
    /\ writes' = {}
    /\ UNCHANGED <<prog, voxel_grid, steps, calibrations, cycVars, triVars,
                   capVars, frameVars, restVars>>

\* KeyboardInterrupt inside the try block, wherever the loop stands: the
\* finally block saves the grid as it is
CfgInterrupt ==
    /\ prog = "cfg" /\ pc \in {"capture", "left", "right", "boost", "decay"}
    /\ pc' = "interrupted"
    /\ saved' = voxel_grid
    /\ writes' = {}
    /\ UNCHANGED <<prog, voxel_grid, steps, calibrations, cycVars, triVars,
                   capVars, frameVars, restVars>>

\* The frame pairs a capture can deliver, and a failed capture
CfgFrames == (LeftFrames \X RightFrames) \cup {None}

-----------------------------------------------------------------------------
(* cap: DualASICameraSystem.capture_frame_pair, called while capturing     *)

\* What the two cameras do on one attempt: both deliver a frame, one of them
\* delivers a null frame, capture_video_frame raises (a timeout), or a frame
\* buffer of the wrong size makes reshape raise.
CaptureOutcomes == {"frames", "left_null", "right_null", "timeout", "bad_buffer"}

\* The exception of the last attempt propagated to the caller
AfterExceptionReraise(a, r) == IF a < r - 1 THEN "continue" ELSE "raise"

\* except Exception: retry after a short sleep, or return None, None on the
\* last attempt (a is the loop index, r is retry)
AfterException(a, r) == IF a < r - 1 THEN "continue" ELSE "return_none"

\* if frame_left is None or frame_right is None: continue, or return None,
\* None on the last attempt
AfterNullFrame(a, r) == IF a < r - 1 THEN "continue" ELSE "return_none"

AfterAttempt(o, a, r) ==
    IF o = "frames" THEN "return_pair"
    ELSE IF o \in {"left_null", "right_null"} THEN AfterNullFrame(a, r)
    ELSE AfterException(a, r)

InitCapture ==
    /\ prog = "cap"
    /\ pc = "idle"
    /\ max_triangulation_error = None

\* The call capture_frame_pair(timeout, retry) with is_capturing set
CapCall(r) ==
    /\ prog = "cap" /\ pc = "idle"
    /\ retry' = r
    /\ attempt' = 0
    /\ outcomes' = <<>>
    /\ pc' = "loop"
    /\ UNCHANGED <<prog, voxel_grid, writes, steps, cycVars, triVars, frameVars, runVars, restVars>>

\* One iteration of `for attempt in range(retry)`
CapAttempt(o, f) ==
    /\ prog = "cap" /\ pc = "loop"
    /\ attempt < retry
    /\ attempt' = attempt + 1
    /\ outcomes' = Append(outcomes, o)
    /\ \E after \in {AfterAttempt(o, attempt, retry)} :
         /\ pc' = IF after = "continue" THEN "loop"
                  ELSE IF after = "raise" THEN "raised" ELSE "returned"
         /\ img' = IF after = "return_pair" THEN f ELSE None
    /\ UNCHANGED <<prog, voxel_grid, writes, steps, camera_hits, frame_count, prev,
                   cycle, retry, triVars, frameVars, runVars, restVars>>

\* The range is exhausted without a return: return None, None after the loop
CapExhausted ==
    /\ prog = "cap" /\ pc = "loop"
    /\ attempt >= retry
    /\ pc' = "returned"
    /\ img' = None
    /\ UNCHANGED <<prog, voxel_grid, writes, steps, camera_hits, frame_count, prev,
                   cycle, capVars, triVars, frameVars, runVars, restVars>>

-----------------------------------------------------------------------------
(* pfp: CalibratedStereoReconstructor.process_frame_pair, frame by frame.  *)
(* A frame is the sequence of its pixels in np.where order; a candidate is *)
(* <<pixel, intensity>>. What one iteration of the pair loop does with the *)
(* rays of its pair is RecPair.                                            *)

motion_threshold == 30
min_pixel_intensity == 100
max_pixels == 100

\* cv2.absdiff on uint8 images: |a - b|, saturating, never wrapping
absdiff(a, b) == Abs(a - b)

\* The combined mask with the two conditions joined by OR
CombinedMaskEither(current, previous, threshold, min_intensity) ==
    {p \in DOMAIN current :
        absdiff(current[p], previous[p]) > threshold \/ current[p] > min_intensity}

\* motion_mask = diff > motion_threshold; valid_mask = current >
\* min_pixel_intensity; combined_mask = motion_mask & valid_mask
CombinedMask(current, previous, threshold, min_intensity) ==
    {p \in DOMAIN current :
        absdiff(current[p], previous[p]) > threshold /\ current[p] > min_intensity}

\* ys, xs = np.where(mask); pixels = list(zip(xs, ys, current[ys, xs]))
PixelList(current, mask) ==
    SelectSeq([p \in DOMAIN current |-> <<p, current[p]>>], LAMBDA c : c[1] \in mask)

\* pixels[::step]
Strided(pixels, step) ==
    [k \in 1..((Len(pixels) + step - 1) \div step) |-> pixels[(k - 1) * step + 1]]

\* The sampling without the final slice
SamplePixelsStrideOnly(pixels, cap) ==
    IF Len(pixels) > cap THEN Strided(pixels, Len(pixels) \div cap) ELSE pixels

\* if len(pixels) > max_pixels: step = len(pixels) // max_pixels;
\* pixels = pixels[::step][:max_pixels]
SamplePixels(pixels, cap) ==
    IF Len(pixels) > cap
    THEN SubSeq(Strided(pixels, Len(pixels) \div cap), 1,
                Min(cap, Len(Strided(pixels, Len(pixels) \div cap))))
    ELSE pixels

\* The candidates of a frame with a missing previous frame read as a dark one
RawMotionPixelsFromDark(current, previous) ==
    PixelList(current,
              CombinedMask(current,
                           IF previous = None THEN [p \in DOMAIN current |-> 0]
                           ELSE previous,
                           motion_threshold, min_pixel_intensity))

\* The candidates of a frame before sampling; none without a previous frame
RawMotionPixels(current, previous) ==
    IF previous = None THEN <<>>
    ELSE PixelList(current,
                   CombinedMask(current, previous, motion_threshold, min_pixel_intensity))

\* detect_motion_pixels(current, previous, max_pixels=100)
detect_motion_pixels(current, previous) ==
    SamplePixels(RawMotionPixels(current, previous), max_pixels)

\* The frames: the first n pixels hold v, the next two 50 and 100, the rest 0
PatternFrame(n, v) ==
    [p \in 1..MaxFramePixels |->
        IF p <= n THEN v ELSE IF p = n + 1 THEN 50 ELSE IF p = n + 2 THEN 100 ELSE 0]
PfpLeftFrames == {PatternFrame(n, v) : n \in {0, 4, 5, 150, 250}, v \in {200, 170}}
PfpRightFrames == {PatternFrame(n, v) : n \in {0, 5, 100}, v \in {200, 120}}

\* The candidate list without the slice
FirstAll(pixels) == pixels

\* pixels[:50]
First50(pixels) == SubSeq(pixels, 1, Min(50, Len(pixels)))

\* The pairs of the two nested loops over pixels_left[:50] and
\* pixels_right[:50] that pass the intensity pre-filter and are triangulated
PairsTriangulated(pixels_left, pixels_right) ==
    {<<l, r>> \in (1..Len(First50(pixels_left))) \X (1..Len(First50(pixels_right))) :
        ~IntensityPreFilterDiscards(pixels_left[l][2], pixels_right[r][2])}

InitPfp ==
    /\ prog = "pfp"
    /\ pc = "frame"
    /\ max_triangulation_error = None

\* CalibratedStereoReconstructor.process_frame_pair(img_left, img_right):
\* the frame counter, the two detections, the stored previous frames, the
\* minimum of 5 candidates per camera, the pair loop
PfpDetected(f, pixels_left, pixels_right) ==
    /\ candidates' = <<pixels_left, pixels_right>>
    /\ IF Len(pixels_left) < 5 \/ Len(pixels_right) < 5
       THEN /\ attempted' = {}
            /\ returned' = [triangulations |-> 0, motion_left |-> 0, motion_right |-> 0]
       ELSE \E pairs \in {PairsTriangulated(pixels_left, pixels_right)} :
              /\ attempted' = pairs
              /\ returned' = [triangulations |-> Cardinality(pairs),
                               motion_left |-> Len(pixels_left),
                               motion_right |-> Len(pixels_right)]

process_frame_pair(f) ==
    /\ prog = "pfp"
    /\ steps < MaxCalls
    /\ steps' = steps + 1
    /\ frame_count' = frame_count + 1
    /\ img' = f
    /\ prev' = f
    /\ \E raws \in {<<RawMotionPixels(f[1], IF prev = None THEN None ELSE prev[1]),
                      RawMotionPixels(f[2], IF prev = None THEN None ELSE prev[2])>>} :
         /\ raw' = raws
         /\ PfpDetected(f, SamplePixels(raws[1], max_pixels),
                        SamplePixels(raws[2], max_pixels))
    /\ UNCHANGED <<prog, pc, voxel_grid, writes, camera_hits, cycle, loop, before,
                   triVars, capVars, runVars, restVars>>

-----------------------------------------------------------------------------
(* tri: StereoTriangulationCalibration.triangulate_stereo, one frame. What *)
(* one iteration of the pair loop does with the rays of its pair is        *)
(* CalPair.                                                                *)

tri_motion_threshold == 50
tri_min_pixel_intensity == 150
max_combinations == 200

\* coords[np.random.choice(len(coords), max_pixels, replace=False)]: every
\* choice of max_pixels of the candidates is possible (kept in image order
\* here; the order np.random.choice gives them is not modelled)
RandomChoices(coords, cap) ==
    IF Len(coords) > cap
    THEN {SelectSeq(coords, LAMBDA c : \A k \in DOMAIN d : coords[d[k]] # c) :
            d \in {e \in [1..(Len(coords) - cap) -> DOMAIN coords] :
                      \A i, j \in DOMAIN e : i < j => e[i] < e[j]}}
    ELSE {coords}

\* The frames given to the call: (left count, right count) of bright pixels
\* that changed against a dark previous frame
TriCounts == {<<0, 1>>, <<1, 0>>, <<1, 1>>, <<10, 19>>, <<10, 20>>, <<20, 10>>, <<101, 2>>}
TriFrames == {<<PatternFrame(c[1], 200), PatternFrame(c[2], 200)>> : c \in TriCounts}
TriPrevious == <<PatternFrame(0, 200), PatternFrame(0, 200)>>

InitTriangulate ==
    /\ prog = "tri"
    /\ pc = "idle"
    /\ max_triangulation_error = None

\* triangulate_stereo(img_left, img_right, prev_left, prev_right) up to its
\* pair loop: the two masks, the early return, the random sampling
TriSampled(raws) ==
    IF Len(raws[1]) = 0 \/ Len(raws[2]) = 0
    THEN /\ candidates' = raws
         /\ pc' = "returned"
         /\ UNCHANGED loop
    ELSE /\ \E cl \in RandomChoices(raws[1], max_pixels),
               cr \in RandomChoices(raws[2], max_pixels) :
                 candidates' = <<cl, cr>>
         /\ loop' = [left |-> 1, right |-> 1, combinations_tried |-> 0]
         /\ pc' = "outer"

triangulate_stereo(f) ==
    /\ prog = "tri" /\ pc = "idle"
    /\ img' = f
    /\ prev' = TriPrevious
    /\ attempted' = {}
    /\ \E raws \in {<<PixelList(f[1], CombinedMask(f[1], TriPrevious[1],
                                   tri_motion_threshold, tri_min_pixel_intensity)),
                      PixelList(f[2], CombinedMask(f[2], TriPrevious[2],
                                   tri_motion_threshold, tri_min_pixel_intensity))>>} :
         /\ raw' = raws
         /\ TriSampled(raws)
    /\ UNCHANGED <<prog, voxel_grid, writes, steps, camera_hits, frame_count, cycle,
                   before, returned, triVars, capVars, runVars, restVars>>

\* The head of `for py_left, px_left in coords_left`
TriOuter ==
    /\ prog = "tri" /\ pc = "outer"
    /\ IF loop.left > Len(candidates[1]) \/ loop.combinations_tried >= max_combinations
       THEN pc' = "returned" /\ UNCHANGED loop
       ELSE pc' = "inner" /\ loop' = [loop EXCEPT !.right = 1]
    /\ UNCHANGED <<prog, voxel_grid, writes, steps, cycVars, candidates, attempted, raw,
                   before, returned, triVars, capVars, runVars, restVars>>

\* One iteration of `for py_right, px_right in coords_right`
TriInner ==
    /\ prog = "tri" /\ pc = "inner"
    /\ IF loop.right > Len(candidates[2])
       THEN /\ pc' = "outer"
            /\ loop' = [loop EXCEPT !.left = @ + 1]
            /\ UNCHANGED attempted
       ELSE IF loop.combinations_tried + 1 >= max_combinations
       THEN /\ pc' = "outer"
            /\ loop' = [loop EXCEPT !.left = @ + 1, !.combinations_tried = @ + 1]
            /\ UNCHANGED attempted
       ELSE /\ pc' = "inner"
            /\ loop' = [loop EXCEPT !.right = @ + 1, !.combinations_tried = @ + 1]
            /\ attempted' = attempted \cup {<<loop.left, loop.right>>}
    /\ UNCHANGED <<prog, voxel_grid, writes, steps, cycVars, candidates, raw,
                   before, returned, triVars, capVars, runVars, restVars>>

-----------------------------------------------------------------------------
(* sv: StereoVoxelReconstructor.process_frame_pair. Its detect_motion_pixels, *)
(* closest_point_between_rays, triangulate_pixel_pair and accumulate_voxel *)
(* are the code of CalibratedStereoReconstructor's, with thresholds 30 and *)
(* 100, on the grid below.                                                 *)

sv_voxel_grid_size == <<100, 100, 100>>
sv_voxel_bounds == << <<Rat(-1, 4), Rat(3, 4)>>, <<Rat(-1, 2), Rat(1, 2)>>, <<Zero, R(1)>> >>

\* StereoVoxelReconstructor.world_to_voxel
sv_world_to_voxel(world_pos) ==
    IF \E k \in 1..3 :
          ~InHalfOpen(world_pos[k], sv_voxel_bounds[k][1], sv_voxel_bounds[k][2])
    THEN None
    ELSE [k \in 1..3 |->
            ClampedIndex(world_pos[k], sv_voxel_bounds[k][1], sv_voxel_grid_size[k])]

\* get_ray_direction(pixel_x, pixel_y) of the two pixels of an image: the
\* direction of the ray, as an integer vector D standing for D / |D|
SvRays == << <<1, 0, 2>>, <<-1, 0, 2>> >>

\* The images: each of the two pixels is dark or bright
SvImages == { <<0, 0>>, <<200, 0>>, <<0, 200>>, <<120, 0>>, <<0, 120>> }

\* The pair loop counting every pair it tried as a triangulation
SvAccumulateCountsTried(st, o, confidence) ==
    IF o.point = None THEN [st EXCEPT !.triangulations = @ + 1]
    ELSE IF sv_world_to_voxel(o.point) = None THEN [st EXCEPT !.triangulations = @ + 1]
    ELSE [grid |-> GridSet(st.grid, sv_world_to_voxel(o.point),
                      RAdd(GridGet(st.grid, sv_world_to_voxel(o.point)), confidence)),
          writes |-> st.writes \cup {[cell |-> sv_world_to_voxel(o.point),
                                      point |-> o.point]},
          voxel_count |-> st.voxel_count + 1,
          triangulations |-> st.triangulations + 1]

\* The body of the pair loop: o is what triangulate_pixel_pair returned.
\* accumulate_voxel adds the confidence and counts the voxel; the loop counts
\* the triangulation when accumulate_voxel returned True.
SvAccumulate(st, o, confidence) ==
    IF o.point = None THEN st
    ELSE IF sv_world_to_voxel(o.point) = None THEN st
    ELSE [grid |-> GridSet(st.grid, sv_world_to_voxel(o.point),
                      RAdd(GridGet(st.grid, sv_world_to_voxel(o.point)), confidence)),
          writes |-> st.writes \cup {[cell |-> sv_world_to_voxel(o.point),
                                      point |-> o.point]},
          voxel_count |-> st.voxel_count + 1,
          triangulations |-> st.triangulations + 1]

SvPair(st, l, r, max_error) ==
    SvAccumulate(st, triangulate_pixel_pair(SvRays[l[1]], SvRays[r[1]], max_error),
                 Rat(U8(l[2] + r[2]), 2 * 255))

\* for ... in pixels_left[:50]: for ... in pixels_right[:50], pair k of the
\* Len(pixels_left) * Len(pixels_right) pairs onwards
RECURSIVE SvPairLoop(_, _, _, _, _)
SvPairLoop(st, pixels_left, pixels_right, k, max_error) ==
    IF k > Len(pixels_left) * Len(pixels_right) THEN st
    ELSE SvPairLoop(SvPair(st, pixels_left[((k - 1) \div Len(pixels_right)) + 1],
                           pixels_right[((k - 1) % Len(pixels_right)) + 1], max_error),
                    pixels_left, pixels_right, k + 1, max_error)

\* StereoVoxelReconstructor.__init__
InitSv ==
    /\ prog = "sv"
    /\ pc = "frame"
    /\ max_triangulation_error = Rat(10, 100)

SvDetected(pixels_left, pixels_right) ==
    /\ candidates' = <<pixels_left, pixels_right>>
    /\ IF pixels_left = <<>> \/ pixels_right = <<>>
       THEN /\ returned' = 0
            /\ attempted' = {}
            /\ writes' = {}
            /\ UNCHANGED <<voxel_grid, voxel_count, triangulation_count>>
       ELSE \E st \in {SvPairLoop([grid |-> voxel_grid, writes |-> {}, voxel_count |-> 0,
                                   triangulations |-> 0],
                                  First50(pixels_left), First50(pixels_right), 1,
                                  max_triangulation_error)} :
              /\ returned' = st.triangulations
              /\ attempted' = (1..Len(First50(pixels_left))) \X (1..Len(First50(pixels_right)))
              /\ voxel_grid' = st.grid
              /\ writes' = st.writes
              /\ voxel_count' = voxel_count + st.voxel_count
              /\ triangulation_count' = triangulation_count + st.triangulations

\* StereoVoxelReconstructor.process_frame_pair(img_left, img_right)
Sv_process_frame_pair(f) ==
    /\ prog = "sv" /\ pc = "frame"
    /\ steps < MaxSvCalls
    /\ steps' = steps + 1
    /\ frame_count' = frame_count + 1
    /\ before' = [prev |-> prev, grid |-> voxel_grid]
    /\ img' = f
    /\ prev' = f
    /\ \E raws \in {<<RawMotionPixels(f[1], IF prev = None THEN None ELSE prev[1]),
                      RawMotionPixels(f[2], IF prev = None THEN None ELSE prev[2])>>} :
         /\ raw' = raws
         /\ SvDetected(SamplePixels(raws[1], max_pixels), SamplePixels(raws[2], max_pixels))
    /\ UNCHANGED <<prog, pc, camera_hits, cycle, loop, max_triangulation_error,
                   triangulation_attempts, pair, result, out, capVars, runVars, restVars>>

-----------------------------------------------------------------------------
(* md: motion_detection_3d.py, with the ray-casting extension available    *)

\* A frame of the motion detector, given by the number k of its pixels that
\* are bright (the first k pixels at 255, the others at 0)
MotionLevels == {0, 100, 101}
MdFrames == (MotionLevels \X MotionLevels) \cup {None}

\* np.count_nonzero of the motion mask detect_motion returns for one camera:
\* the pixels that changed between the two frames
MotionPixels(cur, prv) == Abs(cur - prv)

\* What the ray caster returns for a camera's motion image: a grid of
\* non-negative weights
process_image_to_voxel_grid(camera_idx) ==
    [c \in {<<0, 0, camera_idx>>, <<0, 0, 2>>} |-> R(1)]

\* project_motion_to_voxels: accumulate, then decay by 0.98
project_motion_to_voxels(g, camera_idx) ==
    [c \in DOMAIN g \cup DOMAIN process_image_to_voxel_grid(camera_idx) |->
        RMul(RAdd(GridGet(g, c), GridGet(process_image_to_voxel_grid(camera_idx), c)),
             Rat(98, 100))]

\* The two conditional projections of one loop iteration
MdProject(g, ops, motion_pixels, camera_idx) ==
    IF motion_pixels > 100
    THEN [grid |-> project_motion_to_voxels(g, camera_idx), ops |-> Append(ops, "decay")]
    ELSE [grid |-> g, ops |-> ops]

InitMd ==
    /\ prog = "md"
    /\ pc = "capture"
    /\ max_triangulation_error = None

MdProjected(r) ==
    /\ voxel_grid' = r.grid
    /\ cycle' = [base |-> voxel_grid, contrib |-> EmptyGrid, seen |-> {}, ops |-> r.ops]

\* One iteration of the loop of run_motion_detection
MdFrame(f) ==
    /\ prog = "md" /\ pc = "capture"
    /\ steps < MaxMotionFrames
    /\ steps' = steps + 1
    /\ img' = f
    /\ IF f = None
       THEN UNCHANGED <<voxel_grid, prev, frame_count, cycle>>
       ELSE /\ prev' = f
            /\ frame_count' = frame_count + 1
            /\ IF prev = None
               THEN /\ cycle' = [base |-> voxel_grid, contrib |-> EmptyGrid,
                                 seen |-> {}, ops |-> <<>>]
                    /\ UNCHANGED voxel_grid
               ELSE \E l \in {MdProject(voxel_grid, <<>>, MotionPixels(f[1], prev[1]), 0)} :
                    \E r \in {MdProject(l.grid, l.ops, MotionPixels(f[2], prev[2]), 1)} :
                       MdProjected(r)
    /\ UNCHANGED <<prog, pc, camera_hits, writes, triVars, capVars, frameVars, runVars, restVars>>

-----------------------------------------------------------------------------
(* fn: the functions of the engine applied on their own                    *)

NoCall == [fn |-> "none"]
InitFn ==
    /\ call = NoCall
    /\ world_coords = None
\* DualASICameraSystem.__init__
InitCam ==
    /\ is_capturing = FALSE
    /\ video = <<FALSE, FALSE>>
    /\ commands = <<>>
InitRest ==
    /\ InitFn
    /\ InitCam
    /\ ray_voxels = <<>>

\* The ray origins and directions (integer vectors D standing for D / |D|)
\* the functions are applied to
RayOrigins ==
    { <<Zero, Zero, Zero>>, <<Rat(1, 2), Zero, Zero>>, <<Zero, Rat(1, 4), Rat(1, 4)>> }
RayDirections ==
    { <<0, 0, 1>>, <<-1, 0, 2>>, <<1, 0, 2>>, <<1, 0, -1>>, <<0, 1, 1>>, <<-1, 0, 1>>,
      <<1, 2, 2>>, <<-25, 1, 25>>, <<0, 0, -1>> }

\* The two closest-point functions of the repository
ClosestPointFunctions == {"closest_point_between_rays", "Reconstructor_closest_point_between_rays"}
ApplyClosestPoint(fn, p1, d1, p2, d2) ==
    IF fn = "closest_point_between_rays"
    THEN closest_point_between_rays(p1, d1, p2, d2)
    ELSE Reconstructor_closest_point_between_rays(p1, d1, p2, d2)

InitFunctions ==
    /\ prog = "fn"
    /\ pc = "idle"
    /\ max_triangulation_error = None

\* A closest-point function applied to two rays, and to the same two rays
\* given in the other order
Triangulate(fn, p1, d1, p2, d2) ==
    /\ prog = "fn" /\ pc = "idle"
    /\ pc' = "applied"
    /\ call' = [fn |-> fn, p1 |-> p1, d1 |-> d1, p2 |-> p2, d2 |-> d2,
                value |-> ApplyClosestPoint(fn, p1, d1, p2, d2),
                swapped |-> ApplyClosestPoint(fn, p2, d2, p1, d1)]
    /\ UNCHANGED <<prog, voxel_grid, writes, steps, world_coords, ray_voxels,
                   settings, cycVars, triVars, capVars, frameVars, runVars, camVars>>

-----------------------------------------------------------------------------
(* save_voxels: the snapshot of the grid a session writes                  *)

\* The order of np.argwhere: by vx, then vy, then vz
CellBefore(a, b) ==
    \/ a[1] < b[1]
    \/ a[1] = b[1] /\ a[2] < b[2]
    \/ a[1] = b[1] /\ a[2] = b[2] /\ a[3] < b[3]

\* occupied = self.voxels > threshold; indices = np.argwhere(occupied)
RECURSIVE ArgWhere(_)
ArgWhere(occupied) ==
    IF occupied = {} THEN <<>>
    ELSE <<CHOOSE c \in occupied : \A d \in occupied : c = d \/ CellBefore(c, d)>>
         \o ArgWhere(occupied \
                {CHOOSE c \in occupied : \A d \in occupied : c = d \/ CellBefore(c, d)})

Occupied(g, threshold) == {c \in DOMAIN g : RLt(threshold, g[c])}

\* The world coordinate taken without the axis minimum
WorldCoordinateNoOrigin(lo, v) == RMul(R(v), voxel_size)

\* x = self.voxel_bounds['x'][0] + vx * self.voxel_size
WorldCoordinate(lo, v) == RAdd(lo, RMul(R(v), voxel_size))

\* The loop over zip(indices, values): one [x, y, z, val] per index
WorldCoords(g, indices, bounds) ==
    [k \in DOMAIN indices |->
        << WorldCoordinate(bounds[1][1], indices[k][1]),
           WorldCoordinate(bounds[2][1], indices[k][2]),
           WorldCoordinate(bounds[3][1], indices[k][3]),
           g[indices[k]] >>]

\* CalibratedStereoReconstructor.save_voxels(output_path, min_confidence)
save_voxels(g, min_confidence) ==
    WorldCoords(g, ArgWhere(Occupied(g, min_confidence)), voxel_bounds)

\* StereoVoxelReconstructor.save_voxels(output_path): threshold = 1.0
Sv_save_voxels(g) ==
    WorldCoords(g, ArgWhere(Occupied(g, R(1))), sv_voxel_bounds)

\* The floors given to save_voxels: 0.0 and 3.0 by main, 1.0 by default, and
\* a floor between the values two pairs accumulate
ConfidenceFloors == {Zero, Rat(1, 4), R(1), R(3)}

\* A save_voxels call on the reconstructor at the end of the pair loop
RecSave(min_confidence) ==
    /\ prog = "rec" /\ pc = "pairs"
    /\ pc' = "saved"
    /\ call' = [fn |-> "save_voxels", min_confidence |-> min_confidence]
    /\ world_coords' = save_voxels(voxel_grid, min_confidence)
    /\ UNCHANGED <<prog, voxel_grid, writes, steps, ray_voxels, settings, cycVars,
                   triVars, capVars, frameVars, runVars, camVars>>

\* The final save of stereo_voxel_reconstruction.main
SvSave ==
    /\ prog = "sv" /\ pc = "frame"
    /\ pc' = "saved"
    /\ call' = [fn |-> "save_voxels"]
    /\ world_coords' = Sv_save_voxels(voxel_grid)
    /\ UNCHANGED <<prog, voxel_grid, writes, steps, ray_voxels, settings, cycVars,
                   triVars, capVars, frameVars, runVars, camVars>>

-----------------------------------------------------------------------------
(* fn: get_ray_direction, get_left_ray, get_right_ray of                   *)
(* CalibratedStereoReconstructor.  A ray is carried as the vector the code *)
(* builds before it divides by the norm, standing for that vector          *)
(* normalised; (0, 0, 1) has norm 1 and is its own normalisation.          *)

\* float('nan'), and the vector numpy yields once a component is nan
NaN == <<0, 0>>
NaNRay == <<NaN, NaN, NaN>>

\* The calibration the reconstructor loads: the intrinsics of each camera and
\* the rotation of the right camera (a rotation about the y axis with
\* cos = 4/5, sin = 3/5); the left camera is the world frame.
Identity3 == << <<R(1), Zero, Zero>>, <<Zero, R(1), Zero>>, <<Zero, Zero, R(1)>> >>
R_right == << <<Rat(4, 5), Zero, Rat(3, 5)>>, <<Zero, R(1), Zero>>,
              <<Rat(-3, 5), Zero, Rat(4, 5)>> >>
calib ==
    [ left  |-> [fx |-> R(755), fy |-> R(750), cx |-> R(960), cy |-> R(540),
                 k1 |-> Rat(-1, 8)],
      right |-> [fx |-> R(755), fy |-> R(750), cx |-> R(950), cy |-> R(545),
                 k1 |-> Rat(1, 10)] ]

\* np.sqrt of a rational that is a square (the pixels below give squares)
RSqrt(x) ==
    << CHOOSE k \in 0..2000 : k * k = x[1], CHOOSE k \in 1..2000 : k * k = x[2] >>

\* np.arctan(r) for 0 < r <= 1, by the approximant r / (1 + 9/32 r^2), which
\* is within 0.005 of the arc tangent there
arctan(r) == RDiv(r, RAdd(R(1), RMul(Rat(9, 32), RMul(r, r))))

\* scale = theta_distorted / r with theta_distorted = theta * (1 + k1 * theta**2)
DistortionScale(r, k1) ==
    RDiv(RMul(arctan(r), RAdd(R(1), RMul(k1, RMul(arctan(r), arctan(r))))), r)

\* The correction applied at every r: at r = 0 the scale is 0.0 / 0.0
RayOfNormalizedUnguarded(norm_x, norm_y, r, k1) ==
    IF r = Zero THEN NaNRay
    ELSE <<RMul(norm_x, DistortionScale(r, k1)), RMul(norm_y, DistortionScale(r, k1)), R(1)>>

\* if r > 0: norm_x *= scale; norm_y *= scale.  ray = [norm_x, norm_y, 1.0]
RayOfNormalized(norm_x, norm_y, r, k1) ==
    IF RLt(Zero, r)
    THEN <<RMul(norm_x, DistortionScale(r, k1)), RMul(norm_y, DistortionScale(r, k1)), R(1)>>
    ELSE <<norm_x, norm_y, R(1)>>

\* get_ray_direction(pixel_x, pixel_y, fx, fy, cx, cy, k1)
get_ray_direction(pixel_x, pixel_y, fx, fy, cx, cy, k1) ==
    RayOfNormalized(
        RDiv(RSub(R(pixel_x), cx), fx), RDiv(RSub(R(pixel_y), cy), fy),
        RSqrt(RAdd(RMul(RDiv(RSub(R(pixel_x), cx), fx), RDiv(RSub(R(pixel_x), cx), fx)),
                   RMul(RDiv(RSub(R(pixel_y), cy), fy), RDiv(RSub(R(pixel_y), cy), fy)))),
        k1)

get_left_ray(pixel_x, pixel_y) ==
    get_ray_direction(pixel_x, pixel_y, calib.left.fx, calib.left.fy,
                      calib.left.cx, calib.left.cy, calib.left.k1)

\* self.R_right @ ray_right_cam
MatVec(M, v) ==
    IF v = NaNRay THEN NaNRay ELSE <<VDot(M[1], v), VDot(M[2], v), VDot(M[3], v)>>

get_right_ray(pixel_x, pixel_y) ==
    MatVec(R_right,
           get_ray_direction(pixel_x, pixel_y, calib.right.fx, calib.right.fy,
                             calib.right.cx, calib.right.cy, calib.right.k1))

\* The pixels the ray functions are applied to: the principal point of the
\* camera and pixels at normalised distance 1 from it
RayPixels ==
    [ left  |-> { <<960, 540>>, <<1715, 540>>, <<960, 1290>>, <<1413, 1140>> },
      right |-> { <<950, 545>>, <<195, 545>>, <<950, 1295>>, <<497, 1145>> } ]

\* get_left_ray or get_right_ray applied to a pixel
GetRay(camera, pixel) ==
    /\ prog = "fn" /\ pc = "idle"
    /\ pc' = "applied"
    /\ call' = [fn |-> IF camera = "left" THEN "get_left_ray" ELSE "get_right_ray",
                pixel |-> pixel,
                value |-> IF camera = "left" THEN get_left_ray(pixel[1], pixel[2])
                          ELSE get_right_ray(pixel[1], pixel[2])]
    /\ UNCHANGED <<prog, voxel_grid, writes, steps, world_coords, ray_voxels,
                   settings, cycVars, triVars, capVars, frameVars, runVars, camVars>>

-----------------------------------------------------------------------------
(* cam: the capture lifecycle of DualASICameraSystem                        *)

\* Which camera's command raises in a call, if any (the camera library raises
\* when a camera does not answer)
CameraFaults == {"none", "left", "right"}

\* camera_left.<command>(); camera_right.<command>(): the commands issued
\* until one raises
IssueBoth(command, fault) ==
    IF fault = "left"
    THEN << [camera |-> 1, command |-> command, raised |-> TRUE] >>
    ELSE << [camera |-> 1, command |-> command, raised |-> FALSE],
            [camera |-> 2, command |-> command, raised |-> fault = "right"] >>

\* The video mode of the cameras after the start or stop commands issued
VideoAfter(v, issued) ==
    [k \in 1..2 |->
        IF \E i \in DOMAIN issued : issued[i].camera = k /\ ~issued[i].raised
        THEN issued[CHOOSE i \in DOMAIN issued : issued[i].camera = k].command = "start"
        ELSE v[k]]

Raised(issued) == \E i \in DOMAIN issued : issued[i].raised

\* start_capture() on the system s = [is_capturing, video, commands]
start_capture(s, fault) ==
    IF s.is_capturing
    THEN [is_capturing |-> TRUE, video |-> s.video, commands |-> s.commands,
          raised |-> FALSE]
    ELSE [is_capturing |-> ~Raised(IssueBoth("start", fault)),
          video |-> VideoAfter(s.video, IssueBoth("start", fault)),
          commands |-> s.commands \o IssueBoth("start", fault),
          raised |-> Raised(IssueBoth("start", fault))]

\* stop_capture() on the system s
stop_capture(s, fault) ==
    IF ~s.is_capturing
    THEN [is_capturing |-> FALSE, video |-> s.video, commands |-> s.commands,
          raised |-> FALSE]
    ELSE [is_capturing |-> Raised(IssueBoth("stop", fault)),
          video |-> VideoAfter(s.video, IssueBoth("stop", fault)),
          commands |-> s.commands \o IssueBoth("stop", fault),
          raised |-> Raised(IssueBoth("stop", fault))]

\* close() on the system s: stop_capture() if capturing, then both cameras
\* are closed; an exception of stop_capture leaves close
close(s, fault) ==
    IF stop_capture(s, fault).raised
    THEN stop_capture(s, fault)
    ELSE [stop_capture(s, fault) EXCEPT
              !.commands = @ \o IssueBoth("close", "none")]

System == [is_capturing |-> is_capturing, video |-> video, commands |-> commands]

\* DualASICameraSystem.__init__ and configure
InitCamera ==
    /\ prog = "cam"
    /\ pc = "open"
    /\ max_triangulation_error = None

\* A call of method fn that left the system as s
CamCalled(fn, s) ==
    /\ steps < MaxCamCalls
    /\ steps' = steps + 1
    /\ is_capturing' = s.is_capturing
    /\ video' = s.video
    /\ commands' = s.commands
    /\ call' = [fn |-> fn, raised |-> s.raised]
    /\ pc' = IF fn = "close" /\ ~s.raised THEN "closed" ELSE "open"
    /\ UNCHANGED <<prog, voxel_grid, writes, world_coords, ray_voxels,
                   settings, cycVars, triVars, capVars, frameVars, runVars>>

Cam_start_capture(fault) ==
    /\ prog = "cam" /\ pc = "open"
    /\ CamCalled("start_capture", start_capture(System, fault))

Cam_stop_capture(fault) ==
    /\ prog = "cam" /\ pc = "open"
    /\ CamCalled("stop_capture", stop_capture(System, fault))

Cam_close(fault) ==
    /\ prog = "cam" /\ pc = "open"
    /\ CamCalled("close", close(System, fault))

\* capture_frame_pair(): raise RuntimeError if not self.is_capturing (the
\* capture attempts of a call that passes the test are the "cap" program)
Cam_capture_frame_pair ==
    /\ prog = "cam" /\ pc = "open"
    /\ CamCalled("capture_frame_pair",
                 [is_capturing |-> is_capturing, video |-> video,
                  commands |-> commands, raised |-> ~is_capturing])

-----------------------------------------------------------------------------
(* keys: the threshold keys of the interactive loops                        *)

\* The scripts with threshold keys: calibrated_stereo_reconstruction ("rec"),
\* stereo_triangulation_calibration ("cal"), stereo_voxel_reconstruction ("sv")
KeyScripts == {"rec", "cal", "sv"}

ThresholdKeys == {"t", "T", "i", "I", "e", "E"}

\* The thresholds __init__ sets in each script
InitialSettings(script) ==
    [script |-> script,
     motion_threshold |-> IF script = "cal" THEN 50 ELSE 30,
     min_pixel_intensity |-> IF script = "cal" THEN 150 ELSE 100,
     max_triangulation_error |-> IF script = "rec" THEN Rat(2, 100) ELSE Rat(10, 100)]

\* The key branches of calibrated_stereo_reconstruction.main
RecKeyHandler(s, key) ==
    CASE key = "t" -> [s EXCEPT !.motion_threshold = Max(5, @ - 5)]
      [] key = "T" -> [s EXCEPT !.motion_threshold = Min(100, @ + 5)]
      [] key = "i" -> [s EXCEPT !.min_pixel_intensity = Max(10, @ - 10)]
      [] key = "I" -> [s EXCEPT !.min_pixel_intensity = Min(250, @ + 10)]
      [] key = "e" -> [s EXCEPT !.max_triangulation_error =
                                    RMax(Rat(1, 100), RSub(@, Rat(1, 100)))]
      [] key = "E" -> [s EXCEPT !.max_triangulation_error =
                                    RMin(Rat(50, 100), RAdd(@, Rat(1, 100)))]

\* The key branches of StereoTriangulationCalibration.run
CalKeyHandler(s, key) ==
    CASE key = "T" -> [s EXCEPT !.motion_threshold = Min(@ + 5, 100)]
      [] key = "t" -> [s EXCEPT !.motion_threshold = Max(@ - 5, 5)]
      [] key = "I" -> [s EXCEPT !.min_pixel_intensity = Min(@ + 10, 250)]
      [] key = "i" -> [s EXCEPT !.min_pixel_intensity = Max(@ - 10, 20)]
      [] key = "E" -> [s EXCEPT !.max_triangulation_error =
                                    RMin(RAdd(@, Rat(2, 100)), Rat(50, 100))]
      [] key = "e" -> [s EXCEPT !.max_triangulation_error =
                                    RMax(RSub(@, Rat(2, 100)), Rat(1, 100))]

\* The key branches of stereo_voxel_reconstruction.main; it has none for
\* 'e' and 'E'
SvKeyHandler(s, key) ==
    CASE key = "t" -> [s EXCEPT !.motion_threshold = @ - 5]
      [] key = "T" -> [s EXCEPT !.motion_threshold = @ + 5]
      [] key = "i" -> [s EXCEPT !.min_pixel_intensity = @ - 10]
      [] key = "I" -> [s EXCEPT !.min_pixel_intensity = @ + 10]
      [] OTHER -> s

InitKeys ==
    /\ prog = "keys"
    /\ pc = "loop"
    /\ max_triangulation_error = None

\* One key press in the main loop of the script
KeyPress(key) ==
    /\ prog = "keys" /\ pc = "loop"
    /\ steps < MaxKeyPresses
    /\ steps' = steps + 1
    /\ settings' = CASE settings.script = "rec" -> RecKeyHandler(settings, key)
                     [] settings.script = "cal" -> CalKeyHandler(settings, key)
                     [] settings.script = "sv" -> SvKeyHandler(settings, key)
    /\ UNCHANGED <<prog, pc, voxel_grid, writes, ray_voxels, fnVars, camVars,
                   cycVars, triVars, capVars, frameVars, runVars>>

-----------------------------------------------------------------------------
Init ==
    /\ InitRec \/ InitCal \/ InitCfg \/ InitMd \/ InitCapture \/ InitPfp \/ InitTriangulate
       \/ InitSv \/ InitFunctions \/ InitCamera \/ InitKeys
    /\ InitTri
    /\ InitRest
    /\ settings \in (IF prog = "keys" THEN {InitialSettings(script) : script \in KeyScripts}
                     ELSE {None})
    /\ InitCyc
    /\ InitCap
    /\ InitFrame
    /\ calibrations \in (IF prog = "cfg" THEN BOOLEAN \X BOOLEAN ELSE {<<TRUE, TRUE>>})
    /\ saved = None
    /\ voxel_grid = EmptyGrid
    /\ writes = {}
    /\ steps = 0

Next ==
    \/ \E l \in LeftCandidates, r \in RightCandidates : RecPair(l, r)
    \/ \E key \in {"e", "E"} : RecKey(key)
    \/ \E l \in LeftCandidates, r \in RightCandidates : CalPair(l, r)
    \/ \E key \in {"e", "E"} : CalKey(key)
    \/ \E f \in CfgFrames : CfgBaseline(f)
    \/ \E f \in CfgFrames : CfgCapture(f)
    \/ CfgLeft
    \/ CfgRight
    \/ CfgBoost
    \/ CfgDecay
    \/ CfgFinish
    \/ CfgInterrupt
    \/ \E f \in MdFrames : MdFrame(f)
    \/ \E r \in 0..MaxRetry : CapCall(r)
    \/ \E o \in CaptureOutcomes, f \in LeftFrames \X RightFrames : CapAttempt(o, f)
    \/ CapExhausted
    \/ \E f \in PfpLeftFrames \X PfpRightFrames : process_frame_pair(f)
    \/ \E f \in TriFrames : triangulate_stereo(f)
    \/ TriOuter
    \/ TriInner
    \/ \E f \in SvImages \X SvImages : Sv_process_frame_pair(f)
    \/ \E fn \in ClosestPointFunctions, p1 \in RayOrigins, d1 \in RayDirections,
          p2 \in RayOrigins, d2 \in RayDirections : Triangulate(fn, p1, d1, p2, d2)
    \/ \E camera \in {"left", "right"} : \E pixel \in RayPixels[camera] : GetRay(camera, pixel)
    \/ \E min_confidence \in ConfidenceFloors : RecSave(min_confidence)
    \/ SvSave
    \/ \E fault \in CameraFaults : Cam_start_capture(fault)
    \/ \E fault \in CameraFaults : Cam_stop_capture(fault)
    \/ \E fault \in CameraFaults : Cam_close(fault)
    \/ Cam_capture_frame_pair
    \/ \E key \in ThresholdKeys : KeyPress(key)

Spec == Init /\ [][Next]_vars

-----------------------------------------------------------------------------
(* Properties                                                              *)

\* The linear system of the two rays of the last pair tried
PairSystem == RaySystem(cam_left_pos, pair.left.ray, cam_right_pos, pair.right.ray)

\* The closest approach of a non-parallel system lies at a negative parameter
\* on either ray (t < 0 or s < 0)
BehindCamera(q) ==
    /\ ~RLt(Rat(249 * 249, 250 * 250), q.b2)
    /\ ~RLt(RAbs(q.denom), Rat(1, 1000000))
    /\ (RLt(X1n(q), Zero) \/ RLt(X2n(q), Zero))

\* |d1.d2| > 0.996 for the unit directions, or |a*c - b*b| < 1e-6
NearlyParallel(q) ==
    \/ 250 * 250 * q.B * q.B > 249 * 249 * q.A * q.C
    \/ RLt(Rat(Abs(q.A * q.C - q.B * q.B), q.A * q.C), Rat(1, 1000000))

\* C1: whenever the closest approach of the two rays lies at a negative
\* parameter on either ray, closest_point_between_rays returns no point and
\* the pair accumulates no voxel.
C1_BehindCameraYieldsNoPoint ==
    (pair.tried /\ BehindCamera(PairSystem)) => (result.point = None /\ writes = {})

\* C2 as stated: for rays with |d1.d2| > 0.996 or |a*c - b*b| < 1e-6 the
\* triangulation returns no point and an infinite separation.
C2_ParallelYieldsInfiniteSeparation ==
    (pair.tried /\ NearlyParallel(PairSystem)) =>
        (result.point = None /\ result.distance2 = Inf)

\* C2 amended: for such rays the triangulation returns no point, and no
\* point is accepted or written; the separation returned is infinite in the
\* function of stereo_triangulation_calibration.py and None in the method of
\* CalibratedStereoReconstructor.
C2_ParallelYieldsNoPoint ==
    (pair.tried /\ NearlyParallel(PairSystem)) =>
        /\ result.point = None
        /\ result.distance2 = (IF prog = "cal" THEN Inf ELSE None)
        /\ out.point = None
        /\ writes = {}

\* C2 happens: the rays (0,0,1) from (0,0,0) and (0,0,1) from (0.5,0,0) were
\* tried by the reconstructor and gave no point.
C2_IdenticalDirectionsTried ==
    /\ prog = "rec" /\ pair.tried
    /\ pair.left.ray = <<0, 0, 1>> /\ pair.right.ray = <<0, 0, 1>>
    /\ result.point = None

\* The cells of the grid the running script allocates
InsideGrid(cell) ==
    IF prog = "cfg"
    THEN \A k \in 1..3 : 0 <= cell[k] /\ cell[k] < config.size
    ELSE \A k \in 1..3 : 0 <= cell[k] /\ cell[k] < voxel_grid_size[k]

\* C3: every grid write of the triangulated-point path and of the ray-cast
\* path targets an index inside [0, grid_dim) on every axis.
C3_WritesInsideGrid ==
    (prog \in {"rec", "cfg"}) =>
        /\ \A w \in writes : InsideGrid(w.cell)
        /\ \A c \in DOMAIN voxel_grid : InsideGrid(c)

\* C3 happens: a ray was traversed up to the last cell of an axis, its later
\* samples falling beyond the grid.
C3_RayReachesLastCell ==
    /\ prog = "cfg"
    /\ \E w \in writes : w.cell[3] = config.size - 1

\* The world-space box of the running script
InsideBox(point) ==
    IF prog = "cfg"
    THEN /\ RLe(config.x_min, point[1]) /\ RLe(point[1], config.x_max)
         /\ RLe(config.y_min, point[2]) /\ RLe(point[2], config.y_max)
         /\ RLe(config.z_min, point[3]) /\ RLe(point[3], config.z_max)
    ELSE \A k \in 1..3 : /\ RLe(voxel_bounds[k][1], point[k])
                         /\ RLe(point[k], voxel_bounds[k][2])

\* C4: a point outside the configured world-space box never causes a grid
\* write, in the triangulated-point path and in the ray traversal.
C4_OutsideBoxNeverWritten ==
    (prog \in {"rec", "cfg"}) => \A w \in writes : InsideBox(w.point)

\* A frame cycle of a script with a per-frame cycle has just ended
CycleEnded == prog \in {"cfg", "md"} /\ pc = "capture" /\ frame_count > 0

\* C5: every frame cycle applies the temporal decay to the grid exactly once,
\* as its last grid-wide operation.
C5_DecayOncePerCycle ==
    CycleEnded =>
        /\ Cardinality({k \in DOMAIN cycle.ops : cycle.ops[k] = "decay"}) = 1
        /\ cycle.ops[Len(cycle.ops)] = "decay"

\* The cells both cameras marked in the running cycle
SeenByBoth == {c \in {m[1] : m \in cycle.seen} :
                 <<c, 1>> \in cycle.seen /\ <<c, 2>> \in cycle.seen}

\* base + contributions of a cell in the running cycle
CycleSum(c) == RAdd(GridGet(cycle.base, c), GridGet(cycle.contrib, c))

\* C6: a cell seen by both cameras in a frame ends the frame's cycle at
\* (base + contributions) * boost * decay.
C6_BoostThenDecay ==
    (prog = "cfg" /\ CycleEnded) =>
        \A c \in SeenByBoth :
            GridGet(voxel_grid, c) =
                RMul(RMul(CycleSum(c), config.multi_camera_boost), config.temporal_decay)

\* C6 happens: a cycle ended in which both cameras saw a cell that already
\* held a value.
C6_WarmCellSeenByBoth ==
    /\ prog = "cfg" /\ CycleEnded
    /\ \E c \in SeenByBoth : GridGet(cycle.base, c) # Zero

\* Every cell of the configured grid, as (vox_z, vox_y, vox_x)
AllCells == (0..(config.size - 1)) \X (0..(config.size - 1)) \X (0..(config.size - 1))

\* C7: after the boost step of a cycle, a cell holds its accumulated sum
\* times the boost factor if both cameras marked it in this cycle, and its
\* accumulated sum otherwise.
C7_BoostOnceIffSeenByAll ==
    (prog = "cfg" /\ pc = "decay") =>
        \A c \in AllCells :
            GridGet(voxel_grid, c) =
                IF c \in SeenByBoth
                THEN RMul(CycleSum(c), config.multi_camera_boost)
                ELSE CycleSum(c)

\* C7 happens: after the boost of a later cycle, one cell was marked by both
\* cameras and another, which the other camera marked in an earlier cycle or
\* not at all, by the left camera only.
C7_BoostedAndUnboostedCells ==
    /\ prog = "cfg" /\ pc = "decay" /\ frame_count >= 2
    /\ SeenByBoth # {}
    /\ \E m \in cycle.seen : m[2] = 1 /\ m[1] \notin SeenByBoth

\* C8: every cell of the voxel grid holds a value >= 0.
C8_CellsNonNegative ==
    \A c \in DOMAIN voxel_grid : RLe(Zero, voxel_grid[c])

\* C8 happens: cells hold a value after cycles that accumulated, boosted and
\* decayed.
C8_GridAfterCycles ==
    /\ prog = "cfg" /\ CycleEnded /\ frame_count >= 2
    /\ SeenByBoth # {}

\* A cycle without detections has just ended
DecayOnlyCycleEnded == prog = "cfg" /\ CycleEnded /\ cycle.seen = {}

C10_AcceptedWithinGate ==
    /\ (out.point # None) =>
          /\ result.point # None
          /\ RLe(result.distance2, RMul(out.gate, out.gate))
    /\ (prog = "rec" /\ writes # {}) => out.point # None

\* C10 happens: the reconstructor accepted and accumulated a point whose two
\* rays do not meet.
C10_SkewRaysAccepted ==
    /\ prog = "rec" /\ out.point # None /\ writes # {}
    /\ result.distance2 # Zero

\* C11: a failed capture never aborts the session of configurable_reconstruction:
\* a failed capture in the loop leaves the voxel grid, the previous frames and
\* the frame counter unchanged and the loop goes on to the next capture, and
\* no step ends the session with an exception, a failed baseline capture
\* included.
C11_FailedCaptureSkipsCycle ==
    [][prog = "cfg" =>
         /\ (pc = "capture" /\ steps' = steps + 1 /\ img' = None) =>
               (pc' = "capture" /\ UNCHANGED <<voxel_grid, prev, frame_count>>)
         /\ pc' # "crashed"]_vars

\* C13: a camera whose calibration failed to load never casts a ray or writes
\* a voxel: no cell is marked in any cycle by such a camera.
C13_NoRayWithoutCalibration ==
    prog = "cfg" =>
        \A cam \in 1..2 :
            ~calibrations[cam] => \A m \in cycle.seen : m[2] # cam

\* C14: the grid that configurable_reconstruction saves when its loop ends or
\* is interrupted is the grid as it was before the frame cycle then current,
\* or the grid after that cycle's accumulation, boost and decay were all
\* applied; never a grid with only part of the cycle applied.
C14_SavedGridIsWholeCycles ==
    (prog = "cfg" /\ pc \in {"done", "interrupted", "crashed"}) =>
        \/ saved = cycle.base
        \/ cycle.ops = <<"boost", "decay">> /\ saved = voxel_grid

\* C17: the pair loop of CalibratedStereoReconstructor.process_frame_pair
\* discards a candidate pair before triangulation if and only if the two
\* intensities differ by more than 50; every pair with
\* |I_left - I_right| <= 50 is triangulated.
C17_DiscardedIffIntensitiesDiffer ==
    (prog = "rec" /\ pair # NoPair) =>
        (pair.tried <=> Abs(pair.left.intensity - pair.right.intensity) <= 50)

\* C12: a call of capture_frame_pair makes at most `retry` capture attempts,
\* every step of the call makes an attempt or returns, no exception reaches
\* the caller, the call has returned once `retry` attempts were made, and what
\* it returns is a frame pair or (None, None).
C12_CaptureReturnsWithinRetries ==
    /\ [](prog = "cap" =>
            /\ attempt <= retry
            /\ pc # "raised"
            /\ (pc = "loop" /\ attempt > 0) => attempt < retry
            /\ pc = "returned" => (img = None \/ img \in LeftFrames \X RightFrames))
    /\ [][(prog = "cap" /\ pc = "loop") =>
             (attempt' = attempt + 1 \/ pc' = "returned")]_vars

\* C12 happens: a call with retry = 3 saw a null frame, then a timeout on two
\* attempts, the last one included, and returned (None, None).
C12_ReturnedNoneAfterLastTimeout ==
    /\ prog = "cap" /\ pc = "returned" /\ img = None
    /\ retry = 3 /\ attempt = 3
    /\ outcomes = <<"left_null", "timeout", "timeout">>

\* C18: a pixel is a motion candidate, before the sampling cap, if and only
\* if its absolute difference to the previous frame exceeds the motion
\* threshold and its intensity exceeds the intensity threshold: in
\* detect_motion_pixels for every pixel of both images, and in the frame cycle
\* of configurable_reconstruction, where the cells a camera writes are those
\* on the rays of exactly these pixels (intensity / 255 >= 0.3).
C18_CandidateIffMotionAndBright ==
    [][/\ (prog = "pfp" /\ prev # None) =>
            \A cam \in 1..2 : \A p \in 1..MaxFramePixels :
                (\E k \in DOMAIN raw'[cam] : raw'[cam][k][1] = p)
                <=> /\ Abs(img'[cam][p] - prev[cam][p]) > 30
                    /\ img'[cam][p] > 100
       /\ (prog = "cfg" /\ pc \in {"left", "right"} /\ pc' \in {"right", "boost"}) =>
            \E cam \in {IF pc = "left" THEN 1 ELSE 2} :
                writes' = UNION {
                    {[cell |-> v.cell, point |-> v.point] :
                        v \in {VoxelsOnRays(cam, img[cam], calibrations[cam])[p][k] :
                                 k \in DOMAIN VoxelsOnRays(cam, img[cam], calibrations[cam])[p]}} :
                    p \in {q \in DOMAIN img[cam] :
                             /\ Abs(img[cam][q] - prev[cam][q]) > config.motion_threshold
                             /\ 10 * img[cam][q] >= 3 * 255}}]_vars

\* C18 happens: the second frame of process_frame_pair had candidates in the
\* left image, a bright pixel that is no candidate and a pixel at the
\* intensity threshold that is no candidate.
C18_CandidatesAndRejectedPixels ==
    /\ prog = "pfp" /\ frame_count = 2
    /\ raw[1] # <<>>
    /\ \E p \in 1..MaxFramePixels :
         img[1][p] > 100 /\ \A k \in DOMAIN raw[1] : raw[1][k][1] # p
    /\ \E p \in 1..MaxFramePixels :
         img[1][p] = 100 /\ \A k \in DOMAIN raw[1] : raw[1][k][1] # p

\* C15 as stated: in each frame the number of triangulation attempts is at
\* most max_combinations = 200, in triangulate_stereo and in
\* CalibratedStereoReconstructor.process_frame_pair.
C15_AttemptsWithinPairCap ==
    prog \in {"tri", "pfp"} => Cardinality(attempted) <= 200

\* C15 amended: in each frame the number of triangulation attempts is below
\* max_combinations = 200 in triangulate_stereo and at most 50 * 50 = 2500 in
\* CalibratedStereoReconstructor.process_frame_pair.
C15_AttemptsWithinScriptCap ==
    /\ prog = "tri" => Cardinality(attempted) < 200
    /\ prog = "pfp" => Cardinality(attempted) <= 50 * 50

\* C15 happens: process_frame_pair triangulated 2500 pairs in a frame with 100
\* sampled candidates in each image.
C15_FullPairLoop ==
    /\ prog = "pfp"
    /\ Len(candidates[1]) = 100 /\ Len(candidates[2]) = 100
    /\ Cardinality(attempted) = 2500

\* C16: when triangulate_stereo has returned, every left candidate was
\* triangulated against every right candidate if the number of pairs is at
\* most 200, and exactly 200 pairs were triangulated if it is more.
C16_AllPairsOrExactlyCap ==
    (prog = "tri" /\ pc = "returned") =>
        IF Len(candidates[1]) * Len(candidates[2]) <= 200
        THEN attempted = (1..Len(candidates[1])) \X (1..Len(candidates[2]))
        ELSE Cardinality(attempted) = 200

\* C19: for each image of a frame pair the candidate list handed on by the
\* extractor (detect_motion_pixels with its strided sampling, triangulate_stereo
\* with its random sampling) holds at most max_pixels = 100 candidates, each of
\* them one of the raw candidates, and it is the raw list when that holds at
\* most 100.
C19_SampledWithinCapFromRaw ==
    prog \in {"pfp", "tri"} =>
        \A cam \in 1..2 :
            /\ Len(candidates[cam]) <= 100
            /\ \A k \in DOMAIN candidates[cam] :
                  \E j \in DOMAIN raw[cam] : raw[cam][j] = candidates[cam][k]
            /\ Len(raw[cam]) <= 100 => candidates[cam] = raw[cam]

\* C19 happens: detect_motion_pixels found 250 raw candidates in the left
\* image and returned 100 of them, and 100 raw candidates in the right image
\* and returned them all.
C19_SampledDownToCap ==
    /\ prog = "pfp"
    /\ Len(raw[1]) = 250 /\ Len(candidates[1]) = 100
    /\ Len(raw[2]) = 100 /\ candidates[2] = raw[2]

\* C20: a process_frame_pair call of StereoVoxelReconstructor that is the
\* first of the session (no previous frames), or whose frame pair equals the
\* previous one, or in which an image has no motion candidate, finds no
\* candidates in that case, returns 0 detections and leaves every voxel as it
\* was.
C20_NoMotionNoChange ==
    [][(prog = "sv" /\ frame_count' = frame_count + 1) =>
         /\ (prev = None \/ img' = prev) =>
               /\ candidates' = <<<<>>, <<>>>>
               /\ returned' = 0
               /\ voxel_grid' = voxel_grid
         /\ (candidates'[1] = <<>> \/ candidates'[2] = <<>>) =>
               (returned' = 0 /\ voxel_grid' = voxel_grid)]_vars

\* C20 happens: the third call was given the frame pair of the second, which
\* had put a value into the grid; it found no candidates and the grid is as
\* the call found it.
C20_SameFrameTwiceOnWarmGrid ==
    /\ prog = "sv" /\ frame_count = 3
    /\ before.prev = img
    /\ before.grid # EmptyGrid
    /\ candidates = <<<<>>, <<>>>> /\ returned = 0
    /\ voxel_grid = before.grid

\* C21: a closest-point function applied to two rays and to the same two rays
\* in the other order gives the same result: no solution both times, or the
\* same point and the same separation.
C21_TriangulationSymmetric ==
    (prog = "fn" /\ call.fn \in ClosestPointFunctions) => call.value = call.swapped

\* C21 happens: two skew rays of different origins and directions gave a
\* point with a separation above 0, in either order.
C21_SkewRaysBothOrders ==
    /\ prog = "fn" /\ call.fn = "closest_point_between_rays"
    /\ call.p1 # call.p2 /\ call.d1 # call.d2
    /\ call.value.point # None /\ call.value.distance2 # Zero
    /\ call.swapped.point # None

\* The cross product of two vectors of rationals
VCross(u, v) ==
    << RSub(RMul(u[2], v[3]), RMul(u[3], v[2])),
       RSub(RMul(u[3], v[1]), RMul(u[1], v[3])),
       RSub(RMul(u[1], v[2]), RMul(u[2], v[1])) >>

\* The point X lies on the ray from p in direction D, in front of p
InFrontOnRay(X, p, D) ==
    /\ VCross(VSub(X, p), VRat(D)) = <<Zero, Zero, Zero>>
    /\ RLt(Zero, VDot(VSub(X, p), VRat(D)))

\* The points of a lattice of quarter metres the rays can meet at
MeetingPoints ==
    { <<Rat(i, 4), Rat(j, 4), Rat(k, 4)>> : i \in -4..4, j \in -1..2, k \in -2..6 }

\* C22: when two rays that are not nearly parallel meet at a point in front
\* of both origins, the closest-point function returns that point with
\* separation 0; the rays (0,0,1) from (0,0,0) and (-1,0,2) from (0.5,0,0)
\* give the point (0,0,1).
C22_IntersectionReturned ==
    (prog = "fn" /\ call.fn \in ClosestPointFunctions) =>
        /\ \A X \in MeetingPoints :
              ( /\ InFrontOnRay(X, call.p1, call.d1)
                /\ InFrontOnRay(X, call.p2, call.d2)
                /\ ~NearlyParallel(RaySystem(call.p1, call.d1, call.p2, call.d2)) )
              => (call.value.point = X /\ call.value.distance2 = Zero)
        /\ ( /\ call.p1 = <<Zero, Zero, Zero>> /\ call.d1 = <<0, 0, 1>>
             /\ call.p2 = <<Rat(1, 2), Zero, Zero>> /\ call.d2 = <<-1, 0, 2>> )
           => (call.value.point = <<Zero, Zero, R(1)>> /\ call.value.distance2 = Zero)

\* C22 happens: closest_point_between_rays was applied to the rays (0,0,1)
\* from (0,0,0) and (-1,0,2) from (0.5,0,0), which meet at (0,0,1).
C22_ExampleRaysMeet ==
    /\ prog = "fn" /\ call.fn = "closest_point_between_rays"
    /\ call.p1 = <<Zero, Zero, Zero>> /\ call.d1 = <<0, 0, 1>>
    /\ call.p2 = <<Rat(1, 2), Zero, Zero>> /\ call.d2 = <<-1, 0, 2>>
    /\ InFrontOnRay(<<Zero, Zero, R(1)>>, call.p1, call.d1)
    /\ InFrontOnRay(<<Zero, Zero, R(1)>>, call.p2, call.d2)
    /\ call.value.point = <<Zero, Zero, R(1)>>

\* The floor of the last snapshot: the caller's min_confidence in
\* CalibratedStereoReconstructor, 1.0 in StereoVoxelReconstructor
SnapshotFloor == IF prog = "rec" THEN call.min_confidence ELSE R(1)
SnapshotBounds == IF prog = "rec" THEN voxel_bounds ELSE sv_voxel_bounds

\* The record of a cell: its world coordinates, the axis minimum plus the
\* index times the voxel size, and its value
CellRecord(c) ==
    << RAdd(SnapshotBounds[1][1], Rat(c[1], 100)),
       RAdd(SnapshotBounds[2][1], Rat(c[2], 100)),
       RAdd(SnapshotBounds[3][1], Rat(c[3], 100)),
       GridGet(voxel_grid, c) >>

\* C23: the snapshot save_voxels writes holds exactly one record (world_x,
\* world_y, world_z, confidence) for each cell whose value is above the
\* confidence floor and no other record, each world coordinate being the axis
\* minimum plus the cell index times the voxel size.
C23_SnapshotIsCellsAboveFloor ==
    (prog \in {"rec", "sv"} /\ pc = "saved") =>
        /\ \A c \in DOMAIN voxel_grid :
              Cardinality({k \in DOMAIN world_coords : world_coords[k] = CellRecord(c)})
                  = IF RLt(SnapshotFloor, voxel_grid[c]) THEN 1 ELSE 0
        /\ \A k \in DOMAIN world_coords :
              \E c \in DOMAIN voxel_grid :
                  RLt(SnapshotFloor, voxel_grid[c]) /\ world_coords[k] = CellRecord(c)

\* C23 happens: a snapshot with floor 0.25 of a grid with one cell above the
\* floor and one cell with a value below it holds the one record.
C23_SnapshotLeavesOutWeakCell ==
    /\ prog = "rec" /\ pc = "saved" /\ call.min_confidence = Rat(1, 4)
    /\ Len(world_coords) = 1
    /\ \E c \in DOMAIN voxel_grid : RLt(voxel_grid[c], Rat(1, 4))

\* C23 happens in StereoVoxelReconstructor: the final save wrote a record.
C23_SvSnapshotHasRecord ==
    /\ prog = "sv" /\ pc = "saved" /\ Len(world_coords) = 1

C25_CenterRayIsAxis ==
    /\ (prog = "fn" /\ call.fn = "get_left_ray"
          /\ call.pixel = <<RTrunc(calib.left.cx), RTrunc(calib.left.cy)>>)
       => call.value = <<Zero, Zero, R(1)>>
    /\ (prog = "fn" /\ call.fn = "get_right_ray"
          /\ call.pixel = <<RTrunc(calib.right.cx), RTrunc(calib.right.cy)>>)
       => call.value = <<R_right[1][3], R_right[2][3], R_right[3][3]>>

\* C25 happens: get_right_ray was applied to the principal point of the right
\* camera, whose rotation is not the identity, and returned a ray other than
\* (0, 0, 1).
C25_RightCenterRayRotated ==
    /\ prog = "fn" /\ call.fn = "get_right_ray" /\ call.pixel = <<950, 545>>
    /\ R_right # Identity3
    /\ call.value = <<Rat(3, 5), Zero, Rat(4, 5)>>

\* Off the principal point the correction is applied: the ray of the left
\* pixel at normalised coordinates (1, 0) is not (1, 0, 1).
C25_OffCenterRayCorrected ==
    /\ prog = "fn" /\ call.fn = "get_left_ray" /\ call.pixel = <<1715, 540>>
    /\ call.value # <<R(1), Zero, R(1)>>
    /\ call.value[2] = Zero /\ call.value[3] = R(1)

\* The geometry of a tried pair rejects it: its rays are nearly parallel, or
\* the closest-approach point the rays gave has a separation above the gate
\* then in force, a height below 0 or above 2 m (where the intersections
\* behind the cameras that the reconstructor rejects lie), or a position
\* outside the bounds of the grid
GeometryRejects(q, r, gate) ==
    \/ NearlyParallel(q)
    \/ r.point = None
    \/ RLt(RMul(gate, gate), r.distance2)
    \/ RLt(r.point[3], Zero) \/ RLt(R(2), r.point[3])
    \/ \E k \in 1..3 : \/ RLt(r.point[k], voxel_bounds[k][1])
                       \/ RLe(voxel_bounds[k][2], r.point[k])

RayShare(p, c) ==
    IF \E k \in DOMAIN ray_voxels[p] : ray_voxels[p][k].cell = c
    THEN RMul(ray_voxels[p][CHOOSE k \in DOMAIN ray_voxels[p] :
                               ray_voxels[p][k].cell = c].weighted_intensity,
              Rat(1, 10))
    ELSE Zero

\* C27: a list traverse_ray_3d returns holds every voxel at most once, and so
\* a ray adds to a cell at most once in a frame: after the left camera's
\* pixel loop every cell has received the sum over the rays that list it of
\* one contribution each.
C27_RayListsEachVoxelOnce ==
    (prog = "cfg" /\ pc \in {"right", "boost"}) =>
        /\ \A p \in DOMAIN ray_voxels :
              \A i, j \in DOMAIN ray_voxels[p] :
                  ray_voxels[p][i].cell = ray_voxels[p][j].cell => i = j
        /\ pc = "right" =>
              \A c \in AllCells :
                  GridGet(cycle.contrib, c) = RAdd(RayShare(1, c), RayShare(2, c))

\* C27 happens: a ray was traversed whose half-voxel samples fall into the
\* same voxel more than once (fewer voxels listed than samples inside the
\* grid), and two rays of the left camera listed a common cell.
C27_SamplesShareVoxels ==
    /\ prog = "cfg" /\ pc = "right"
    /\ Len(ray_voxels[1]) > 1 /\ Len(ray_voxels[1]) < num_steps
    /\ \E c \in AllCells : RayShare(1, c) # Zero /\ RayShare(2, c) # Zero

\* (I_left + I_right) / (2 * 255) of two 8-bit intensities, without wrap-around
MeanIntensity(int_l, int_r) == Rat(int_l + int_r, 2 * 255)

\* C28: the confidence added to a cell for an accepted pair is
\* (I_left + I_right) / (2 * 255), computed without wrap-around: a frame pair
\* of StereoVoxelReconstructor with one candidate on each side that wrote a
\* cell raised it by that amount, and every pair of the pair loop of
\* CalibratedStereoReconstructor that wrote a cell raised it by that amount.
C28_ConfidenceIsMeanIntensity ==
    /\ []((prog = "sv" /\ writes # {}
             /\ Len(candidates[1]) = 1 /\ Len(candidates[2]) = 1) =>
            \A w \in writes :
                GridGet(voxel_grid, w.cell) =
                    RAdd(GridGet(before.grid, w.cell),
                         MeanIntensity(candidates[1][1][2], candidates[2][1][2])))
    /\ [][(prog = "rec" /\ pc = "pairs" /\ pc' = "pairs" /\ writes' # {}) =>
            \A w \in writes' :
                GridGet(voxel_grid', w.cell) =
                    RAdd(GridGet(voxel_grid, w.cell),
                         MeanIntensity(pair'.left.intensity, pair'.right.intensity))]_vars

\* The start and stop commands camera k carried out, in order
VideoCommands(k) ==
    SelectSeq(commands, LAMBDA c : c.camera = k /\ ~c.raised
                                   /\ c.command \in {"start", "stop"})

\* Camera k was in video mode when command i was issued
RunningAt(i, k) ==
    \E j \in 1..(i - 1) :
        /\ commands[j].camera = k /\ ~commands[j].raised /\ commands[j].command = "start"
        /\ \A m \in (j + 1)..(i - 1) :
              ~(commands[m].camera = k /\ ~commands[m].raised
                  /\ commands[m].command = "stop")

\* The lifecycle as the claim states it, on the state after a call
CaptureLifecycle ==
    /\ is_capturing <=> (video[1] /\ video[2])
    /\ call.fn = "capture_frame_pair" => (call.raised <=> ~is_capturing)
    /\ \A k \in 1..2 : \A i \in DOMAIN VideoCommands(k) :
          VideoCommands(k)[i].command = (IF i % 2 = 1 THEN "start" ELSE "stop")
    /\ \A i \in DOMAIN commands :
          commands[i].command = "close" => ~RunningAt(i, commands[i].camera)

\* C29: after every sequence of start_capture, capture_frame_pair,
\* stop_capture and close calls, is_capturing is true exactly while video
\* capture runs on both cameras, capture_frame_pair raised exactly when it was
\* false, the start and stop commands of each camera strictly alternate, and
\* no camera was closed while its video capture ran.
C29_CaptureLifecycle == prog = "cam" => CaptureLifecycle

\* The same lifecycle on the call sequences in which no camera command raised
C29_LifecycleWhileCommandsSucceed ==
    (prog = "cam" /\ \A i \in DOMAIN commands : ~commands[i].raised) => CaptureLifecycle

\* Such a sequence: started, a repeated start, stopped, closed, every command answered
C29_StartedTwiceStoppedClosed ==
    /\ prog = "cam" /\ pc = "closed" /\ steps = 4
    /\ \A i \in DOMAIN commands : ~commands[i].raised
    /\ Len(commands) = 6

\* The ranges the claim states for the three thresholds
ThresholdsClamped ==
    /\ settings.motion_threshold >= 5 /\ settings.motion_threshold <= 100
    /\ settings.min_pixel_intensity >= 10 /\ settings.min_pixel_intensity <= 250
    /\ ~RLt(settings.max_triangulation_error, Rat(1, 100))
    /\ ~RLt(Rat(50, 100), settings.max_triangulation_error)

\* C30: after any sequence of key presses in an interactive reconstruction or
\* calibration loop, motion_threshold is within [5, 100], min_pixel_intensity
\* within [10, 250] and max_triangulation_error within [0.01, 0.50].
C30_ThresholdsStayClamped == prog = "keys" => ThresholdsClamped

\* The same ranges in the two loops whose key branches clamp
C30_ClampedInRecAndCal ==
    (prog = "keys" /\ settings.script \in {"rec", "cal"}) => ThresholdsClamped

\* A key was pressed at the end of a range and the threshold stayed there
C30_KeyPressedAtClamp ==
    /\ prog = "keys" /\ settings.script = "rec" /\ steps = 10
    /\ settings.min_pixel_intensity = 10

=============================================================================
